---------------------------- MODULE Spec2Model ----------------------------
(***************************************************************************)
(* A model of the domez runtime (packages/domez/lib/main.ts): the List     *)
(* reconciliation engine (createList) over a live sibling sequence, and    *)
(* the Signal / callback-group primitives (createSignal,                   *)
(* createCallbackGroup).                                                   *)
(*                                                                         *)
(* Array indices are the source's 0-based indices; At(s, i) reads s[i].    *)
(* An item Block is named by the number the dynamic ref id counter gave    *)
(* its template (D1, D2, ...); its controller and its root element carry   *)
(* the same number.  The live tree is the child sequence of the list's     *)
(* parent: item root elements and the list's placeholder text node.        *)
(***************************************************************************)
EXTENDS Integers, Sequences, FiniteSets

(* ------------------------------ bounds -------------------------------- *)

\* item Blocks the list may create in one run
MaxBlocks == 3
\* longest backing sequence the operations are allowed to build
MaxLen == 3
\* listener functions of the signal
NumListeners == 2
\* signal values are 0..MaxValue
MaxValue == 2
\* subscriptions (calls of on) in one run
MaxHandles == 3
\* completed mounts of the toggle's ref in one run
MaxMounts == 2
\* most initial items a Block's list is created with
MaxInitial == 2
\* longest effects array a context.effect called outside the builder may make
MaxEffects == 2
\* class names / style properties the writers use are 1..NumNames
NumNames == 2
\* how many times the builder of the Block may run
MaxBuilds == 2
\* how many times one disposer may be invoked
MaxDisposals == 2

(* ----------------------------- constants ------------------------------ *)

\* the placeholder text node of the list (the only node that is not a root)
placeholder == 0
\* Number.MAX_VALUE, the default count of remove(predicate): a float so large
\* that count-- leaves it unchanged
NumberMaxValue == 1000000

VARIABLES
    items,      \* createList: let items: Block<C>[]
    dom,        \* child nodes of the list's parent, in document order
    nextId,     \* dynamicRefId: item Blocks created so far
    last,       \* the last list call: name, result, Blocks it unmounted
    reducer,          \* createSignal: the reducer argument ("none": a state cell)
    currentState,     \* createSignal: let currentState
    stateListeners,   \* callbacks of the state callback group (Set order)
    actionListeners,  \* callbacks of the action callback group (Set order)
    handles,          \* one per call of on: its callback, its group, let active
    calls,            \* listener invocations made by the last call, in order
    slast             \* the last call as the signal saw it: name and arguments

listVars == <<items, dom, nextId, last>>
signalVars ==
    <<reducer, currentState, stateListeners, actionListeners, handles, calls, slast>>

VARIABLES
    initialVisible,   \* createToggle: the initialVisible argument
    mounted,          \* createRef (the toggle's ref): let mounted
    visible,          \* createToggle: let visible
    tplaceholder,     \* createToggle: let placeholder (NoNode: undefined)
    tdom,             \* child nodes of the toggled element's parent, in order
    hooks,            \* runs of the ref's init, onMount and onUnmount so far
    tlast             \* the last call on the toggle or its ref, and its outcome

toggleVars == <<initialVisible, mounted, visible, tplaceholder, tdom, hooks, tlast>>

VARIABLES
    missing,       \* the refs whose marker the builder's markup leaves out
    initialData,   \* context.list(builder, initialData): how many initial items
    listFirst,     \* the builder calls context.list before context.effect
    phase,         \* the Block: "created", "mounted", "failed", "unmounted"
    bmounted,      \* createBlock: let mounted
    refs,          \* createBlock: const refs, each with its ref's mounted flag
    effects,       \* createBlock: const effects
    runs,          \* how many times each effect has run to completion
    onUnmount,     \* createBlock: const onUnmount (Set order)
    disposed,      \* how many times each disposer has been invoked
    container,     \* child nodes of the container element
    childRoot,     \* the nested Block's root: "none", "attached", "removed"
    events,        \* what the last call did to the Block, in order
    blast          \* the last call as the Block saw it, and its outcome

blockVars == <<missing, initialData, listFirst, phase, bmounted, refs, effects, runs,
               onUnmount, disposed, container, childRoot, events, blast>>

VARIABLES
    attr,        \* which composition of the element the run writes: "class", "style"
    cmap,        \* element.__classes / element.__styles: entries in Map order
    composed,    \* element.className / element.style as last composed
    supplied     \* the value each writer supplied last

styleVars == <<attr, cmap, composed, supplied>>

VARIABLES
    bindingFirst,   \* the builder calls context.on(signal).show() before context.ref()
    inside          \* the element ref's marker lies inside the element show() governs

showVars == <<bindingFirst, inside>>

\* the state of the parts a specification leaves alone
otherThanList == <<signalVars, toggleVars, blockVars, styleVars, showVars>>
otherThanSignal == <<listVars, toggleVars, blockVars, styleVars, showVars>>
otherThanToggle == <<listVars, signalVars, blockVars, styleVars, showVars>>
otherThanBlock == <<toggleVars, styleVars, showVars, last, reducer, actionListeners>>
otherThanStyle == <<listVars, signalVars, toggleVars, blockVars, showVars>>

vars == <<items, dom, nextId, last,
          reducer, currentState, stateListeners, actionListeners, handles, calls, slast,
          initialVisible, mounted, visible, tplaceholder, tdom, hooks, tlast,
          missing, initialData, listFirst, phase, bmounted, refs, effects, runs,
          onUnmount, disposed, container, childRoot, events, blast,
          attr, cmap, composed, supplied, bindingFirst, inside>>

Blocks == 1..MaxBlocks
Listeners == 1..NumListeners
Values == 0..MaxValue

(* ------------------------- sequences as arrays ------------------------ *)

At(s, i) == s[i + 1]

InRange(s, i) == i >= 0 /\ i < Len(s)

Min(a, b) == IF a < b THEN a ELSE b

Max(a, b) == IF a > b THEN a ELSE b

Contains(s, x) == \E i \in 1..Len(s) : s[i] = x

\* index (1-based) of the first occurrence of x in s
PosOf(s, x) == CHOOSE i \in 1..Len(s) : s[i] = x /\ \A j \in 1..(i - 1) : s[j] # x

\* the elements of s
Range(s) == {s[i] : i \in 1..Len(s)}

Without(s, x) == SelectSeq(s, LAMBDA y : y # x)

\* how many times x occurs in s
Occurrences(s, x) == Cardinality({i \in 1..Len(s) : s[i] = x})

\* Array.prototype.splice: the clamped start index
SpliceStart(s, start) ==
    IF start < 0 THEN Max(Len(s) + start, 0) ELSE Min(start, Len(s))

\* Array.prototype.splice: the clamped delete count
SpliceCount(s, start, count) ==
    Min(Max(count, 0), Len(s) - SpliceStart(s, start))

\* Array.prototype.splice: the removed elements (its return value)
SpliceRemoved(s, start, count) ==
    SubSeq(s, SpliceStart(s, start) + 1,
              SpliceStart(s, start) + SpliceCount(s, start, count))

\* Array.prototype.splice: the array afterwards
Splice(s, start, count, ins) ==
    SubSeq(s, 1, SpliceStart(s, start)) \o ins
      \o SubSeq(s, SpliceStart(s, start) + SpliceCount(s, start, count) + 1, Len(s))

(* ------------------------------ the tree ------------------------------ *)

\* node.remove(): detach the node (no effect on a detached node)
NodeRemove(d, n) == Without(d, n)

\* insertBefore(currentNode, newNode) = currentNode.parentNode?.insertBefore(
\* newNode, currentNode): nothing when currentNode is detached; a node inserted
\* before itself stays where it is; otherwise newNode is taken out of the tree
\* and put immediately before currentNode
insertBefore(d, currentNode, newNode) ==
    IF ~Contains(d, currentNode) THEN d
    ELSE IF currentNode = newNode THEN d
    ELSE LET r == Without(d, newNode)
             p == PosOf(r, currentNode)
         IN  SubSeq(r, 1, p - 1) \o <<newNode>> \o SubSeq(r, p, Len(r))

\* node.nextSibling, or placeholder when there is none (node.nextSibling ?? placeholder)
NextSiblingOr(d, n) ==
    IF Contains(d, n) /\ PosOf(d, n) < Len(d) THEN d[PosOf(d, n) + 1]
    ELSE placeholder

\* block.unmount() of each Block of the sequence bs in turn: rootElement.remove()
RECURSIVE UnmountAll(_, _)
UnmountAll(d, bs) ==
    IF bs = <<>> THEN d ELSE UnmountAll(NodeRemove(d, Head(bs)), Tail(bs))

(* -------------------------- results of a call -------------------------- *)

\* kind: "void" | "ctrl" (one controller) | "absent" (undefined) |
\*       "list" (array of controllers) | "block" (a Block object) | "error"
\* val: the controllers (or the Block) returned; un: the Blocks whose unmount()
\* the call ran, in order
Result(op, kind, val, msg, un) ==
    [op |-> op, kind |-> kind, val |-> val, msg |-> msg, un |-> un]

RangeError == "Item index is out of range"
EmptyFirstError == "Cannot access the first item of empty list"
EmptyLastError == "Cannot access the last item of empty list"
\* reading .controller of undefined
TypeError == "TypeError"

\* a call on the signal: its name, a number argument (a value, an action, a
\* listener or a handle) and a text argument (the type of on, an updater)
SignalCall(op, n, t) == [op |-> op, n |-> n, t |-> t]

(* ------------------------------- Init --------------------------------- *)

\* createList before any call: no entries; mounting the list's ref put the
\* placeholder in place of the list's template
ListInit ==
    /\ items = <<>>
    /\ dom = <<placeholder>>
    /\ nextId = 0
    /\ last = Result("init", "void", <<>>, "", <<>>)

\* createSignal(initialState) or createSignal(initialState, reducer)
SignalInit ==
    /\ reducer \in {"none", "add"}
    /\ currentState \in Values
    /\ stateListeners = <<>>
    /\ actionListeners = <<>>
    /\ handles = <<>>
    /\ calls = <<>>
    /\ slast = SignalCall("init", 0, "")

\* the signal while only the list is exercised
SignalIdle ==
    /\ reducer = "none"
    /\ currentState = 0
    /\ stateListeners = <<>>
    /\ actionListeners = <<>>
    /\ handles = <<>>
    /\ calls = <<>>
    /\ slast = SignalCall("init", 0, "")

(* nodes of the toggle's parent: the siblings A and B, the toggled element, and
   the text nodes createToggle makes (the n-th one made is Text(n)) *)
Node(kind, n) == [kind |-> kind, n |-> n]
SiblingA == Node("A", 0)
SiblingB == Node("B", 0)
Element == Node("element", 0)
Text(n) == Node("text", n)
\* let placeholder before its first assignment
NoNode == Node("undefined", 0)

\* a call on the toggle or its ref: name, outcome ("void", "element", "error"),
\* error message, and what toggle.visible was when the call was made
ToggleCall(op, kind, msg, was) == [op |-> op, kind |-> kind, msg |-> msg, was |-> was]

NotMountedError == "The ref has not been mounted"
RemountError == "Cannot re-mount. The ref has been mounted"

\* createToggle(id, initialVisible) with the marked element between A and B
ToggleInit ==
    /\ initialVisible \in BOOLEAN
    /\ mounted = FALSE
    /\ visible = FALSE
    /\ tplaceholder = NoNode
    /\ tdom = <<SiblingA, Element, SiblingB>>
    /\ hooks = [init |-> 0, onMount |-> 0, onUnmount |-> 0]
    /\ tlast = ToggleCall("init", "void", "", FALSE)

\* the toggle while other parts are exercised
ToggleIdle ==
    /\ initialVisible = TRUE
    /\ mounted = FALSE
    /\ visible = FALSE
    /\ tplaceholder = NoNode
    /\ tdom = <<SiblingA, Element, SiblingB>>
    /\ hooks = [init |-> 0, onMount |-> 0, onUnmount |-> 0]
    /\ tlast = ToggleCall("init", "void", "", FALSE)

(* the Block under study is built by a builder that registers, in this order, an
   element ref (context.ref()), a nested-block ref (context.ref(Child)), a toggle
   ref (context.toggle()) and a list ref (context.list(Item, initialData)), one
   effect e1 that returns the disposer d1, and one subscription
   context.on(signal, listener); the nested Block has one effect that returns
   the disposer dChild *)
RefKinds == {"element", "block", "toggle", "list"}
EffectNames == {"populate", "e1", "late"}
Disposers == {"removeListener", "d1", "dChild"}

\* nodes of the container: what it held before, the synthetic template anchor,
\* and the Block's root carrying the text the builder rendered
OldContent == Node("old", 0)
TemplateAnchor == Node("template", 0)
Root(text) == Node("root", text)

\* a call on the Block or its context: name, outcome ("void", "error", or what
\* render returned: "empty" for {}, "result" for the builder's result object),
\* the data the returned controller was built with, the error message
BlockCall(op, kind, data, msg) == [op |-> op, kind |-> kind, data |-> data, msg |-> msg]

Event(ev, of) == [ev |-> ev, of |-> of]

InvalidTemplateError == "Invalid template"
InvalidElementError == "Invalid element"
EffectLateError == "Cannot use effect after block mounting"

\* createBlock(blockBuilder, parent, data), not yet mounted, for a builder whose
\* markup leaves out the markers of the refs in missing
BlockCreated(m, n, lf) ==
    /\ missing = m
    /\ initialData = n
    /\ listFirst = lf
    /\ phase = "created"
    /\ bmounted = FALSE
    /\ refs = <<>>
    /\ effects = <<>>
    /\ runs = [e \in EffectNames |-> 0]
    /\ onUnmount = <<>>
    /\ disposed = [d \in Disposers |-> 0]
    /\ container = <<OldContent>>
    /\ childRoot = "none"
    /\ events = <<>>
    /\ blast = BlockCall("init", "void", 0, "")

\* the markups of the builder, by the markers they leave out: none, or the
\* marker of one ref
Markups == {{}} \cup {{k} : k \in RefKinds}

\* the list is created without initial data, or with MaxInitial items
InitialCounts == {0, MaxInitial}

BlockInit ==
    \E m \in Markups, n \in InitialCounts, lf \in BOOLEAN : BlockCreated(m, n, lf)

\* the Block while other parts are exercised
BlockIdle == BlockCreated({}, 0, TRUE)

\* the list of a Block before its ref is mounted: no placeholder in the tree yet
ListUnmounted ==
    /\ items = <<>>
    /\ dom = <<>>
    /\ nextId = 0
    /\ last = Result("init", "void", <<>>, "", <<>>)

(* values written to an element's class or style: a string (the names it
   carries; none for ""), or an object with one entry *)
Names == 1..NumNames
\* the class name / declaration of the markup itself
BaseName == 0

Entry(key, value) == [key |-> key, value |-> value]
Str(names) ==
    [type |-> "string", entries |-> [i \in 1..Len(names) |-> Entry(names[i], TRUE)]]
Obj(name, value) == [type |-> "object", entries |-> <<Entry(name, value)>>]
\* a writer that has not written yet
NoValue == [type |-> "none", entries |-> <<>>]

WriterValues ==
    {Str(<<>>)} \cup {Str(<<n>>) : n \in Names}
                \cup {Obj(n, v) : n \in Names, v \in BOOLEAN}

\* the writers of one element besides its markup: ref.class / ref.style of two
\* element refs on the element, and ref.update of the second
Writers == {"ref1", "ref2", "update2"}

\* an element whose markup carries the class / style declaration base, before
\* any writer has touched it
StyleCreated(a, base) ==
    /\ attr = a
    /\ cmap = <<>>
    /\ composed = [text |-> base, props |-> [n \in Names |-> "unset"]]
    /\ supplied = [w \in Writers |-> NoValue]

StyleInit ==
    \E a \in {"class", "style"}, base \in {<<>>, <<BaseName>>} : StyleCreated(a, base)

\* the element while other parts are exercised
StyleIdle == StyleCreated("class", <<>>)

\* the builder of the Block with a signal-driven binding, while other parts
\* are exercised
ShowIdle == bindingFirst = TRUE /\ inside = FALSE

(* ------------------------------ the List ------------------------------ *)

CanCreate == nextId < MaxBlocks /\ Len(items) < MaxLen

\* createItem(data, insertAction): a new Block is built and mounted on a
\* template element that insertAction put before anchor; mounting replaces the
\* template by the Block's root (nothing is attached when anchor is detached)
createItem(d, anchor) == insertBefore(d, anchor, nextId + 1)

\* the root of items[index], or placeholder (items[index]?.rootElement ?? placeholder)
RootOr(index) == IF InRange(items, index) THEN At(items, index) ELSE placeholder

push ==
    /\ CanCreate
    /\ dom' = createItem(dom, placeholder)
    /\ items' = Append(items, nextId + 1)
    /\ nextId' = nextId + 1
    /\ last' = Result("push", "ctrl", <<nextId + 1>>, "", <<>>)
    /\ UNCHANGED otherThanList

unshift ==
    /\ CanCreate
    /\ dom' = createItem(dom, RootOr(0))
    /\ items' = <<nextId + 1>> \o items
    /\ nextId' = nextId + 1
    /\ last' = Result("unshift", "ctrl", <<nextId + 1>>, "", <<>>)
    /\ UNCHANGED otherThanList

insert(index) ==
    /\ CanCreate
    /\ dom' = createItem(dom, RootOr(index))
    /\ items' = Splice(items, index, 0, <<nextId + 1>>)
    /\ nextId' = nextId + 1
    /\ last' = Result("insert", "ctrl", <<nextId + 1>>, "", <<>>)
    /\ UNCHANGED otherThanList

set(index) ==
    /\ IF index < 0 \/ index >= Len(items)
       THEN /\ last' = Result("set", "error", <<>>, RangeError, <<>>)
            /\ UNCHANGED <<items, dom, nextId>>
       ELSE /\ nextId < MaxBlocks
            /\ dom' = NodeRemove(createItem(dom, At(items, index)), At(items, index))
            /\ items' = [items EXCEPT ![index + 1] = nextId + 1]
            /\ nextId' = nextId + 1
            /\ last' = Result("set", "ctrl", <<nextId + 1>>, "", <<At(items, index)>>)
    /\ UNCHANGED otherThanList

\* the controller of s[i], or the TypeError of reading it from undefined
ControllerAt(op, s, i) ==
    IF InRange(s, i) THEN Result(op, "ctrl", <<At(s, i)>>, "", <<>>)
    ELSE Result(op, "error", <<>>, TypeError, <<>>)

first ==
    /\ last' = IF Len(items) # 0
               THEN Result("first", "error", <<>>, EmptyFirstError, <<>>)
               ELSE ControllerAt("first", items, 0)
    /\ UNCHANGED <<items, dom, nextId>>
    /\ UNCHANGED otherThanList

lastItem ==
    /\ last' = IF Len(items) # 0
               THEN Result("last", "error", <<>>, EmptyLastError, <<>>)
               ELSE ControllerAt("last", items, Len(items) - 1)
    /\ UNCHANGED <<items, dom, nextId>>
    /\ UNCHANGED otherThanList

pop ==
    /\ IF items = <<>>
       THEN /\ last' = Result("pop", "absent", <<>>, "", <<>>)
            /\ UNCHANGED <<items, dom>>
       ELSE /\ items' = SubSeq(items, 1, Len(items) - 1)
            /\ dom' = NodeRemove(dom, items[Len(items)])
            /\ last' = Result("pop", "ctrl", <<items[Len(items)]>>, "",
                              <<items[Len(items)]>>)
    /\ UNCHANGED nextId
    /\ UNCHANGED otherThanList

shift ==
    /\ IF items = <<>>
       THEN /\ last' = Result("shift", "absent", <<>>, "", <<>>)
            /\ UNCHANGED <<items, dom>>
       ELSE /\ items' = Tail(items)
            /\ dom' = NodeRemove(dom, Head(items))
            /\ last' = Result("shift", "ctrl", <<Head(items)>>, "", <<Head(items)>>)
    /\ UNCHANGED nextId
    /\ UNCHANGED otherThanList

\* the guard shared by swap and move
InvalidPair(from, to) ==
    \/ Len(items) = 0
    \/ from = to
    \/ from < 0
    \/ to < 0
    \/ from >= Len(items)
    \/ to >= Len(items)

\* the two re-insertions of swap, once from < to
SwapDom(d, fromItem, toItem) ==
    insertBefore(insertBefore(d, toItem, fromItem),
                 NextSiblingOr(d, fromItem), toItem)

\* swap(from, to) on a list holding the Blocks s in the children d: the Blocks
\* and the children it leaves
Swapped(s, d, from, to) ==
    IF \/ Len(s) = 0 \/ from = to \/ from < 0 \/ to < 0
       \/ from >= Len(s) \/ to >= Len(s)
    THEN [items |-> s, dom |-> d]
    ELSE LET lo == Min(from, to)
             hi == Max(from, to)
         IN [items |-> [s EXCEPT ![lo + 1] = At(s, hi), ![hi + 1] = At(s, lo)],
             dom |-> SwapDom(d, At(s, lo), At(s, hi))]

swap(from, to) ==
    /\ last' = Result("swap", "void", <<>>, "", <<>>)
    /\ items' = Swapped(items, dom, from, to).items
    /\ dom' = Swapped(items, dom, from, to).dom
    /\ UNCHANGED nextId
    /\ UNCHANGED otherThanList

\* items.splice(to, 0, fromItem) of move
MoveItems(s, from, to) == Splice(s, to, 0, <<At(s, from)>>)

move(from, to) ==
    /\ last' = Result("move", "void", <<>>, "", <<>>)
    /\ IF InvalidPair(from, to)
       THEN UNCHANGED <<items, dom>>
       ELSE /\ Len(items) < MaxLen
            /\ items' = MoveItems(items, from, to)
            /\ dom' = insertBefore(dom, At(items, to), At(items, from))
    /\ UNCHANGED nextId
    /\ UNCHANGED otherThanList

\* the comparators handed to sort, sortFn(a.controller, b.controller): by the
\* controllers' numbers, by them in reverse, by their parity (so that some
\* compare equal), or a comparator that finds all equal
Comparators == {"number", "reverse", "parity", "equal"}

sortFn(cmp, a, b) ==
    CASE cmp = "number" -> a - b
      [] cmp = "reverse" -> b - a
      [] cmp = "parity" -> (a % 2) - (b % 2)
      [] OTHER -> 0

\* the comparator sort hands to Array.prototype.sort: (a, b) => -sortFn(a, b)
Comparator(cmp, a, b) == 0 - sortFn(cmp, a, b)

\* an unstable sort, for comparison: x goes before the elements it equals
RECURSIVE InsertBeforeEqual(_, _, _)
InsertBeforeEqual(sorted, x, cmp) ==
    IF sorted = <<>> THEN <<x>>
    ELSE IF Comparator(cmp, Head(sorted), x) < 0
         THEN <<Head(sorted)>> \o InsertBeforeEqual(Tail(sorted), x, cmp)
         ELSE <<x>> \o sorted

\* Array.prototype.sort is stable: x goes after every element it does not precede
RECURSIVE InsertStable(_, _, _)
InsertStable(sorted, x, cmp) ==
    IF sorted = <<>> THEN <<x>>
    ELSE IF Comparator(cmp, Head(sorted), x) <= 0
         THEN <<Head(sorted)>> \o InsertStable(Tail(sorted), x, cmp)
         ELSE <<x>> \o sorted

\* items.slice().sort(comparator)
RECURSIVE ArraySort(_, _)
ArraySort(s, cmp) ==
    IF s = <<>> THEN <<>>
    ELSE InsertStable(ArraySort(SubSeq(s, 1, Len(s) - 1), cmp), s[Len(s)], cmp)

\* sorted.forEach: each root is inserted before lastNode and becomes lastNode
RECURSIVE Thread(_, _, _)
Thread(d, sorted, lastNode) ==
    IF sorted = <<>> THEN d
    ELSE Thread(insertBefore(d, lastNode, Head(sorted)), Tail(sorted), Head(sorted))

\* sort(sortFn) on a list holding the Blocks s in the children d: the Blocks
\* and the children it leaves
Sorted(s, d, cmp) ==
    IF Len(s) = 0 THEN [items |-> s, dom |-> d]
    ELSE [items |-> ArraySort(s, cmp),
          dom |-> Thread(d, ArraySort(s, cmp), placeholder)]

sort(cmp) ==
    /\ last' = Result("sort", "void", <<>>, "", <<>>)
    /\ items' = Sorted(items, dom, cmp).items
    /\ dom' = Sorted(items, dom, cmp).dom
    /\ UNCHANGED nextId
    /\ UNCHANGED otherThanList

\* the predicates handed to remove, predicate(item.controller, index):
\* (c, i) => i === n, (c, i) => i !== n, (c, i) => c === n, () => true
Predicates ==
    [t : {"index", "notIndex"}, n : 0..(MaxLen - 1)]
      \cup [t : {"controller"}, n : Blocks] \cup [t : {"all"}, n : {0}]

Holds(pred, c, i) ==
    CASE pred.t = "index" -> i = pred.n
      [] pred.t = "notIndex" -> i # pred.n
      [] pred.t = "controller" -> c = pred.n
      [] OTHER -> TRUE

\* count--: Number.MAX_VALUE - 1 is Number.MAX_VALUE again
Decrement(count) == IF count = NumberMaxValue THEN count ELSE count - 1

\* the for-of loop of remove(predicate, count) from position index on: the
\* Blocks removed and their indices, in scan order
RECURSIVE Scan(_, _, _, _, _)
Scan(s, pred, index, count, acc) ==
    IF index >= Len(s) THEN acc
    ELSE LET hit == Holds(pred, At(s, index), index)
             count2 == IF hit THEN Decrement(count) ELSE count
             acc2 == IF hit
                     THEN [removed |-> Append(acc.removed, At(s, index)),
                           indices |-> Append(acc.indices, index)]
                     ELSE acc
         IN  IF count2 = 0 THEN acc2 ELSE Scan(s, pred, index + 1, count2, acc2)

\* while (removedIndices.length) items.splice(removedIndices.pop(), 1)
RECURSIVE SpliceOut(_, _)
SpliceOut(s, indices) ==
    IF indices = <<>> THEN s
    ELSE SpliceOut(Splice(s, indices[Len(indices)], 1, <<>>),
                   SubSeq(indices, 1, Len(indices) - 1))

removeWhere(pred, count) ==
    LET found == Scan(items, pred, 0, count, [removed |-> <<>>, indices |-> <<>>])
    IN  /\ items' = SpliceOut(items, found.indices)
        /\ dom' = UnmountAll(dom, found.removed)
        /\ last' = Result("removeWhere", "list", found.removed, "", found.removed)
        /\ UNCHANGED nextId
        /\ UNCHANGED otherThanList

\* the value of remove(index, count) called with nargs arguments
RemoveReturn(op, removed, nargs) ==
    IF nargs > 1
    THEN IF removed = <<>> THEN Result(op, "absent", <<>>, "", removed)
         ELSE Result(op, "block", <<Head(removed)>>, "", removed)
    ELSE Result(op, "list", removed, "", removed)

\* remove(index) is RemoveAt(.., index, 1, 1); remove(index, count) is
\* RemoveAt(.., index, count, 2)
RemoveAt(op, index, count, nargs) ==
    /\ items' = Splice(items, index, count, <<>>)
    /\ dom' = UnmountAll(dom, SpliceRemoved(items, index, count))
    /\ last' = RemoveReturn(op, SpliceRemoved(items, index, count), nargs)
    /\ UNCHANGED nextId
    /\ UNCHANGED otherThanList

removeIndex(index) == RemoveAt("removeIndex", index, 1, 1)

removeCount(index, count) == RemoveAt("removeCount", index, count, 2)

\* ref.unmount() of the list's ref, which the owning Block's unmount calls:
\* nothing unless the ref is mounted (its placeholder still in the tree); else
\* items.forEach((item) => item.unmount()), items.length = 0, and the
\* placeholder leaves the tree
listUnmount ==
    /\ IF ~Contains(dom, placeholder)
       THEN /\ last' = Result("unmount", "void", <<>>, "", <<>>)
            /\ UNCHANGED <<items, dom>>
       ELSE /\ last' = Result("unmount", "void", <<>>, "", items)
            /\ items' = <<>>
            /\ dom' = NodeRemove(UnmountAll(dom, items), placeholder)
    /\ UNCHANGED nextId
    /\ UNCHANGED otherThanList

\* ref.mount(element) of the list's ref, with a template element the caller
\* appended to the list's parent: a mounted ref throws; else init creates a new
\* placeholder, puts it before the element and removes the element
listMount ==
    /\ IF Contains(dom, placeholder)
       THEN /\ last' = Result("mount", "error", <<>>, RemountError, <<>>)
            /\ UNCHANGED dom
       ELSE /\ last' = Result("mount", "void", <<>>, "", <<>>)
            /\ dom' = Append(dom, placeholder)
    /\ UNCHANGED <<items, nextId>>
    /\ UNCHANGED otherThanList

ListNext ==
    \/ push
    \/ unshift
    \/ \E index \in (-1)..(Len(items) + 1) : insert(index)
    \/ \E index \in (-1)..Len(items) : set(index)
    \/ first
    \/ lastItem
    \/ pop
    \/ shift
    \/ \E from \in (-1)..Len(items), to \in (-1)..Len(items) : swap(from, to)
    \/ \E from \in (-1)..Len(items), to \in (-1)..Len(items) : move(from, to)
    \/ \E cmp \in Comparators : sort(cmp)
    \/ \E pred \in Predicates, count \in {0, 1, 2, NumberMaxValue} :
         removeWhere(pred, count)
    \/ \E index \in (-1)..Len(items) : removeIndex(index)
    \/ \E index \in (-1)..Len(items), count \in 0..2 : removeCount(index, count)
    \/ listUnmount
    \/ listMount

ListStart == ListInit /\ SignalIdle /\ ToggleIdle /\ BlockIdle /\ StyleIdle /\ ShowIdle

ListSpec == ListStart /\ [][ListNext]_vars

(* ----------------------------- the Signal ----------------------------- *)

\* Set.add: a callback already in the group keeps its place
callbacksAdd(callbacks, callback) ==
    IF Contains(callbacks, callback) THEN callbacks ELSE Append(callbacks, callback)

\* Set.delete
callbacksDelete(callbacks, callback) == Without(callbacks, callback)

\* createCallbackGroup.call: callbacks.forEach((callback) => callback(...args))
call(callbacks, args) ==
    [i \in 1..Len(callbacks) |-> [listener |-> callbacks[i], args |-> args]]

\* a remover that forgets its active flag: it deletes on every call
RemovedWithoutFlag(callbacks, handle) == callbacksDelete(callbacks, handle.listener)

\* the function add returns, called on a group: nothing unless still active
Removed(callbacks, handle) ==
    IF ~handle.active THEN callbacks ELSE callbacksDelete(callbacks, handle.listener)

\* a set without its identity check: it notifies on every call
SetCallsUnchecked(nextState) == call(stateListeners, <<nextState>>)

\* the listener invocations of set(nextState) once nextState is resolved
SetCalls(nextState) ==
    IF currentState = nextState THEN <<>> ELSE call(stateListeners, <<nextState>>)

\* the updater functions handed to set
Updaters == {"same", "next"}

Apply(updater, prev) ==
    IF updater = "same" THEN prev ELSE (prev + 1) % (MaxValue + 1)

\* the reducer of an emit-mode signal
Reduce(state, action) == (state + action) % (MaxValue + 1)

\* an emit that reduces and notifies state listeners before the action listeners
EmitCallsStateFirst(action) ==
    SetCalls(Reduce(currentState, action))
        \o call(actionListeners, <<currentState, action>>)

\* the listener invocations of emit(action): actionListeners.call(currentState,
\* action), then those of set(reducer(currentState, action))
EmitCalls(action) ==
    call(actionListeners, <<currentState, action>>)
        \o SetCalls(Reduce(currentState, action))

setValue(nextState) ==
    /\ reducer = "none"
    /\ currentState' = nextState
    /\ calls' = SetCalls(nextState)
    /\ slast' = SignalCall("set", nextState, "value")
    /\ UNCHANGED <<reducer, stateListeners, actionListeners, handles>>
    /\ UNCHANGED otherThanSignal

setUpdater(updater) ==
    /\ reducer = "none"
    /\ currentState' = Apply(updater, currentState)
    /\ calls' = SetCalls(Apply(updater, currentState))
    /\ slast' = SignalCall("set", Apply(updater, currentState), updater)
    /\ UNCHANGED <<reducer, stateListeners, actionListeners, handles>>
    /\ UNCHANGED otherThanSignal

\* stateListeners.call(value) while the listener r, whenever it is handed a
\* value other than target, calls set(target) before it returns: the nested set
\* stores target and runs its own forEach to the end, then the outer forEach
\* goes on handing value to the callbacks after r
RECURSIVE ReentrantCalls(_, _, _, _, _)
ReentrantCalls(callbacks, i, value, r, target) ==
    IF i > Len(callbacks) THEN <<>>
    ELSE <<[listener |-> callbacks[i], args |-> <<value>>]>>
         \o (IF callbacks[i] = r /\ value # target
              THEN call(callbacks, <<target>>) ELSE <<>>)
         \o ReentrantCalls(callbacks, i + 1, value, r, target)

\* set(nextState) with the re-entrant listener r among the subscribers or not
setReentrant(nextState, r, target) ==
    /\ reducer = "none"
    /\ currentState' = IF currentState = nextState THEN currentState
                       ELSE IF Contains(stateListeners, r) /\ nextState # target
                       THEN target
                       ELSE nextState
    /\ calls' = IF currentState = nextState THEN <<>>
                ELSE ReentrantCalls(stateListeners, 1, nextState, r, target)
    /\ slast' = SignalCall("reenter", nextState, "value")
    /\ UNCHANGED <<reducer, stateListeners, actionListeners, handles>>
    /\ UNCHANGED otherThanSignal

emit(action) ==
    /\ reducer # "none"
    /\ currentState' = Reduce(currentState, action)
    /\ calls' = EmitCalls(action)
    /\ slast' = SignalCall("emit", action, "")
    /\ UNCHANGED <<reducer, stateListeners, actionListeners, handles>>
    /\ UNCHANGED otherThanSignal

\* type: "state", "action", or "" when on is called without a type
on(listener, type) ==
    /\ Len(handles) < MaxHandles
    /\ calls' = IF type = "state" THEN <<[listener |-> listener, args |-> <<currentState>>]>>
                ELSE <<>>
    /\ IF type = "action"
       THEN /\ actionListeners' = callbacksAdd(actionListeners, listener)
            /\ UNCHANGED stateListeners
       ELSE /\ stateListeners' = callbacksAdd(stateListeners, listener)
            /\ UNCHANGED actionListeners
    /\ handles' = Append(handles, [listener |-> listener,
                                   group |-> IF type = "action" THEN "action" ELSE "state",
                                   active |-> TRUE])
    /\ slast' = SignalCall("on", listener, type)
    /\ UNCHANGED <<reducer, currentState>>
    /\ UNCHANGED otherThanSignal

\* calling the function on returned as the h-th subscription
unsubscribe(h) ==
    /\ IF handles[h].group = "action"
       THEN /\ actionListeners' = Removed(actionListeners, handles[h])
            /\ UNCHANGED stateListeners
       ELSE /\ stateListeners' = Removed(stateListeners, handles[h])
            /\ UNCHANGED actionListeners
    /\ handles' = [handles EXCEPT ![h].active = FALSE]
    /\ calls' = <<>>
    /\ slast' = SignalCall("unsubscribe", h, IF handles[h].active THEN "active" ELSE "spent")
    /\ UNCHANGED <<reducer, currentState>>
    /\ UNCHANGED otherThanSignal

SignalNext ==
    \/ \E nextState \in Values : setValue(nextState)
    \/ \E updater \in Updaters : setUpdater(updater)
    \/ \E action \in Values : emit(action)
    \/ \E listener \in Listeners, type \in {"state", "action", ""} : on(listener, type)
    \/ \E h \in 1..Len(handles) : unsubscribe(h)

SignalStart == SignalInit /\ ListInit /\ ToggleIdle /\ BlockIdle /\ StyleIdle /\ ShowIdle

SignalSpec == SignalStart /\ [][SignalNext]_vars

\* the signal with a subscriber that calls set from inside its notification
ReentrantNext ==
    \/ SignalNext
    \/ \E nextState \in Values, r \in Listeners, target \in Values :
          setReentrant(nextState, r, target)

ReentrantSpec == SignalStart /\ [][ReentrantNext]_vars

(* ------------------------ the Toggle and its Ref ----------------------- *)

\* a setter that puts the element back with parent.appendChild
VisibleAssignedAtEnd(value, vis, ph, d) ==
    IF value = vis THEN [visible |-> vis, dom |-> d, kind |-> "void", msg |-> ""]
    ELSE [visible |-> value,
          dom |-> IF value THEN Append(NodeRemove(d, Element), Element)
                  ELSE NodeRemove(d, Element),
          kind |-> "void", msg |-> ""]

\* the setter of toggle.visible run on (vis, ph, d): a same-value assignment
\* returns at once; otherwise visible is stored first and the element is then
\* inserted before the placeholder or removed, which throws a TypeError while
\* placeholder and rootElement are still undefined
VisibleAssigned(value, vis, ph, d) ==
    IF value = vis THEN [visible |-> vis, dom |-> d, kind |-> "void", msg |-> ""]
    ELSE IF ph = NoNode
         THEN [visible |-> value, dom |-> d, kind |-> "error", msg |-> TypeError]
    ELSE [visible |-> value,
          dom |-> IF value THEN insertBefore(d, ph, Element) ELSE NodeRemove(d, Element),
          kind |-> "void", msg |-> ""]

\* toggle.visible = value
assign(op, value) ==
    LET r == VisibleAssigned(value, visible, tplaceholder, tdom)
    IN  /\ visible' = r.visible
        /\ tdom' = r.dom
        /\ tlast' = ToggleCall(op, r.kind, r.msg, visible)
        /\ UNCHANGED <<initialVisible, mounted, tplaceholder, hooks>>
        /\ UNCHANGED otherThanToggle

show == assign("show", TRUE)

hide == assign("hide", FALSE)

toggle == assign("toggle", ~visible)

setVisible(value) == assign("visible", value)

\* ref(): the accessor of a mounted ref returns its element
refCall ==
    /\ tlast' = IF ~mounted THEN ToggleCall("call", "error", NotMountedError, visible)
                ELSE ToggleCall("call", "element", "", visible)
    /\ UNCHANGED <<initialVisible, mounted, visible, tplaceholder, tdom, hooks>>
    /\ UNCHANGED otherThanToggle

\* what a second ref.mount does on a ref that forgets to test mounted
MountedAgain == FALSE

\* the test at the head of ref.mount
AlreadyMounted == mounted

\* ref.mount(element): init puts a new placeholder before the element, then
\* onMount assigns toggle.visible = initialVisible
refMount ==
    IF AlreadyMounted
    THEN /\ tlast' = ToggleCall("mount", "error", RemountError, visible)
         /\ UNCHANGED <<initialVisible, mounted, visible, tplaceholder, tdom, hooks>>
         /\ UNCHANGED otherThanToggle
    ELSE /\ hooks.init < MaxMounts
         /\ LET ph == Text(hooks.init + 1)
                r == VisibleAssigned(initialVisible, visible, ph,
                                     insertBefore(tdom, Element, ph))
            IN  /\ tplaceholder' = ph
                /\ visible' = r.visible
                /\ tdom' = r.dom
         /\ mounted' = TRUE
         /\ hooks' = [hooks EXCEPT !.init = @ + 1, !.onMount = @ + 1]
         /\ tlast' = ToggleCall("mount", "void", "", visible)
         /\ UNCHANGED initialVisible
         /\ UNCHANGED otherThanToggle

\* ref.unmount(): nothing unless mounted; the toggle's onUnmount is () => {}
refUnmount ==
    /\ mounted' = FALSE
    /\ hooks' = IF mounted THEN [hooks EXCEPT !.onUnmount = @ + 1] ELSE hooks
    /\ tlast' = ToggleCall("unmount", "void", "", visible)
    /\ UNCHANGED <<initialVisible, visible, tplaceholder, tdom>>
    /\ UNCHANGED otherThanToggle

ToggleNext ==
    \/ show
    \/ hide
    \/ toggle
    \/ \E value \in BOOLEAN : setVisible(value)
    \/ refCall
    \/ refMount
    \/ refUnmount

ToggleStart == ToggleInit /\ ListInit /\ SignalIdle /\ BlockIdle /\ StyleIdle /\ ShowIdle

ToggleSpec == ToggleStart /\ [][ToggleNext]_vars

(* ------------------------------ the Block ------------------------------ *)

\* the listener the builder subscribes with context.on(signal, listener)
BlockListener == CHOOSE l \in Listeners : \A k \in Listeners : l <= k

\* the kinds of the refs in the order the builder registered them
Registered == <<"element", "block", "toggle", "list">>

\* generateRefId(context, refs.length) at the registration of the ref of this
\* kind by a run of the builder that finds base refs on const refs: the length
\* of const refs at that moment
generateRefId(base, kind) == base + PosOf(Registered, kind) - 1

\* attribute names: generateRefAttribute(id) is data-ref-<id>
AttributeName(prefix, id) == [prefix |-> prefix, id |-> id]
generateRefAttribute(id) == AttributeName("data-ref-", id)

\* element.removeAttribute(name)
removeAttribute(attrs, name) == attrs \ {name}

\* a ref registered by a run of the builder that finds base refs on const refs,
\* with the attributes of the element the markup of that run carries for it
\* (none when the markup leaves its marker out)
RefOf(base, kind) ==
    [kind |-> kind, mounted |-> FALSE,
     attrs |-> IF kind \in missing THEN {}
               ELSE {generateRefAttribute(generateRefId(base, kind))}]

\* const refs after the builder's first run: ref() and list() push, toggle()
\* unshifts
BuilderRefs ==
    <<RefOf(0, "toggle"), RefOf(0, "element"), RefOf(0, "block"), RefOf(0, "list")>>

\* const effects after the builder: context.list registers the effect that
\* pushes the initial items only when initialData is truthy
BuilderEffects ==
    IF initialData = 0 THEN <<"e1">>
    ELSE IF listFirst THEN <<"populate", "e1">> ELSE <<"e1", "populate">>

IsMounted(rs, kind) == \E i \in 1..Len(rs) : rs[i].kind = kind /\ rs[i].mounted

\* mountRefs on the refs of the builder's first run: a ref whose marker is not
\* in the markup is skipped with a warning; on the element found,
\* refElement.removeAttribute(ref.id) precedes ref.mount
mountRefs(rs) ==
    [i \in 1..Len(rs) |->
        IF rs[i].kind \in missing THEN rs[i]
        ELSE [rs[i] EXCEPT
                !.mounted = TRUE,
                !.attrs = removeAttribute(@,
                             AttributeName("", generateRefId(0, rs[i].kind)))]]

\* let mounted as a callback sees it during block.mount: it is set before
\* mountRefs, so it is true during ref resolution and during the effects
MountedFlagAt(point) == TRUE

\* context.effect(effect) on the effects array effs while let mounted is m
EffectAdded(m, effs, effect) == IF m THEN effs ELSE Append(effs, effect)

EffectOutcome(m) == IF m THEN Event("effect", "error") ELSE Event("effect", "added")

\* the list's initial-items effect: initialList.forEach((item) => list.push(item)),
\* from entry k on; a push on a list whose ref was never mounted throws a
\* TypeError (placeholder is undefined) after a dynamic ref id was taken
RECURSIVE Populate(_, _)
Populate(k, st) ==
    IF k > initialData THEN [st EXCEPT !.runs["populate"] = @ + 1]
    ELSE IF ~IsMounted(st.refs, "list")
         THEN [st EXCEPT !.failed = TRUE, !.nextId = @ + 1,
                         !.events = Append(@, Event("throw", "populate"))]
    ELSE Populate(k + 1,
                  [st EXCEPT !.items = Append(@, st.nextId + 1),
                             !.dom = insertBefore(st.dom, placeholder, st.nextId + 1),
                             !.nextId = @ + 1,
                             !.events = Append(@, Event("push", "item"))])

\* effects.forEach((effect) => { const unmountHandler = effect(context); ... }),
\* from effect i on; a throwing effect ends the loop and the mount
RECURSIVE RunEffects(_, _, _, _)
RunEffects(i, effs, late, st) ==
    IF i > Len(effs) \/ st.failed THEN st
    ELSE IF effs[i] = "populate" THEN RunEffects(i + 1, effs, late, Populate(1, st))
    ELSE IF effs[i] = "e1"
         THEN RunEffects(i + 1, effs, late,
                [st EXCEPT
                    !.runs["e1"] = @ + 1,
                    !.effects = IF "effects" \in late
                                THEN EffectAdded(MountedFlagAt("effects"), @, "late")
                                ELSE @,
                    !.events = Append(@, Event("run", "e1"))
                                 \o (IF "effects" \in late
                                     THEN <<EffectOutcome(MountedFlagAt("effects"))>>
                                     ELSE <<>>),
                    !.onUnmount = callbacksAdd(@, "d1")])
    ELSE RunEffects(i + 1, effs, late,
                [st EXCEPT !.runs[effs[i]] = @ + 1,
                           !.events = Append(@, Event("run", effs[i]))])

\* what mountRefs does with each ref, in the order of const refs; mounting the
\* nested-block ref runs the nested Block's builder, whose events (nested) come
\* before the next ref is looked up
RECURSIVE MountEvents(_, _)
MountEvents(rs, nested) ==
    IF rs = <<>> THEN <<>>
    ELSE <<IF Head(rs).mounted THEN Event("mount", Head(rs).kind)
           ELSE Event("warn", Head(rs).kind)>>
         \o (IF Head(rs).kind = "block" /\ Head(rs).mounted THEN nested ELSE <<>>)
         \o MountEvents(Tail(rs), nested)

\* the builder's context.on(signal, listener): signal.on(listenerWrapper), the
\* remover collected in onUnmount, and the first run of the wrapper
Subscribed ==
    /\ stateListeners' = callbacksAdd(stateListeners, BlockListener)
    /\ handles' = Append(handles, [listener |-> BlockListener, group |-> "state",
                                   active |-> TRUE])
    /\ calls' = <<[listener |-> BlockListener, args |-> <<currentState>>]>>
    /\ slast' = SignalCall("on", BlockListener, "")
    /\ UNCHANGED currentState

\* the controller block.mount keeps: {} for a markup string, else the result
Controller(result) == IF result = "string" THEN "empty" ELSE "result"

\* the inputs render is called with: how many top-level elements the markup
\* has, what the builder returns, where its callbacks call context.effect
RenderRoots == {1, 2}
RenderResults == {"string", "object"}
RenderLate == SUBSET {"refs", "effects"}

\* render(container, blockBuilder, data) for a builder that returns markup with
\* `roots` top-level elements, as a string or inside a result object, and whose
\* callbacks call context.effect at the points in late ("refs": the nested
\* Block's builder, "effects": the effect e1), catching what it throws
render(data, roots, result, late) ==
    /\ phase = "created"
    /\ Subscribed
    /\ missing' = missing /\ initialData' = initialData /\ listFirst' = listFirst
    /\ disposed' = disposed
    /\ IF roots # 1
       THEN \* createTemplate throws: the anchor stays, holding the markup
            /\ container' = <<TemplateAnchor>>
            /\ phase' = "failed"
            /\ bmounted' = FALSE
            /\ refs' = BuilderRefs
            /\ effects' = BuilderEffects
            /\ onUnmount' = <<"removeListener">>
            /\ events' = <<Event("build", data), Event("throw", "createTemplate")>>
            /\ blast' = BlockCall("render", "error", data, InvalidTemplateError)
            /\ UNCHANGED <<runs, childRoot, items, dom, nextId>>
       ELSE LET refs1 == mountRefs(BuilderRefs)
                lateAtRefs == IsMounted(refs1, "block") /\ "refs" \in late
                effs1 == IF lateAtRefs
                         THEN EffectAdded(MountedFlagAt("refs"), BuilderEffects, "late")
                         ELSE BuilderEffects
                st0 == [refs |-> refs1, runs |-> runs, effects |-> effs1,
                        onUnmount |-> <<"removeListener">>,
                        items |-> items, nextId |-> nextId,
                        dom |-> IF IsMounted(refs1, "list") THEN <<placeholder>> ELSE dom,
                        failed |-> FALSE,
                        events |-> <<Event("build", data)>>
                                     \o MountEvents(refs1,
                                          IF "refs" \in late
                                          THEN <<EffectOutcome(MountedFlagAt("refs"))>>
                                          ELSE <<>>)]
                st == RunEffects(1, effs1, late, st0)
            IN  /\ container' = <<Root(data)>>
                /\ bmounted' = TRUE
                /\ refs' = st.refs
                /\ childRoot' = IF IsMounted(refs1, "block") THEN "attached" ELSE childRoot
                /\ effects' = st.effects
                /\ runs' = st.runs
                /\ onUnmount' = st.onUnmount
                /\ items' = st.items
                /\ dom' = st.dom
                /\ nextId' = st.nextId
                /\ events' = st.events
                /\ phase' = IF st.failed THEN "failed" ELSE "mounted"
                /\ blast' = IF st.failed THEN BlockCall("render", "error", data, TypeError)
                            ELSE BlockCall("render", Controller(result), data, "")
    /\ UNCHANGED otherThanBlock

\* context.effect(effect) called once block.mount has returned or thrown
effect ==
    /\ phase # "created"
    /\ bmounted \/ Len(effects) < MaxEffects
    /\ effects' = EffectAdded(bmounted, effects, "late")
    /\ events' = <<EffectOutcome(bmounted)>>
    /\ blast' = IF bmounted THEN BlockCall("effect", "error", 0, EffectLateError)
                ELSE BlockCall("effect", "void", 0, "")
    /\ calls' = <<>>
    /\ slast' = SignalCall("effect", 0, "")
    /\ UNCHANGED <<missing, initialData, listFirst, phase, bmounted, refs,
                   runs, onUnmount, disposed, container, childRoot>>
    /\ UNCHANGED <<items, dom, nextId, currentState, stateListeners, handles>>
    /\ UNCHANGED otherThanBlock

\* the signal subscription the builder made with context.on
BlockHandle == CHOOSE h \in 1..Len(handles) : handles[h].listener = BlockListener

\* what ref.unmount() does for each ref, in the order of const refs: nothing for
\* a ref that is not mounted; a nested-block ref unmounts its Block (root, then
\* its disposer); a list ref unmounts every item, empties the list and removes
\* its placeholder
RECURSIVE UnmountEvents(_, _)
UnmountEvents(rs, i) ==
    IF i > Len(rs) THEN <<>>
    ELSE (IF ~rs[i].mounted THEN <<Event("skip", rs[i].kind)>>
          ELSE <<Event("unmount", rs[i].kind)>>
               \o (IF rs[i].kind = "block"
                   THEN <<Event("remove", "childRoot"), Event("dispose", "dChild")>>
                   ELSE IF rs[i].kind = "list"
                   THEN [k \in 1..Len(items) |-> Event("unmount", "item")]
                   ELSE <<>>))
         \o UnmountEvents(rs, i + 1)

\* an unmount that forgets the collected disposers
DisposalsSkipped(fns) == <<>>

\* the disposers onUnmount.forEach((x) => x()) invokes, in order
Disposals(fns) == fns

DisposeEvents(fns) == [i \in 1..Len(fns) |-> Event("dispose", fns[i])]

\* block.unmount(): rootElement.remove(), refs.forEach((ref) => ref.unmount()),
\* onUnmount.forEach((x) => x()); there is no test of mounted, and a disposer an
\* effect returned stays in onUnmount, so every further call runs it again
unmount ==
    IF ~bmounted
    THEN \* rootElement is still undefined: rootElement.remove() throws
         /\ blast' = BlockCall("unmount", "error", 0, TypeError)
         /\ events' = <<>>
         /\ calls' = <<>>
         /\ slast' = SignalCall("unmount", 0, "")
         /\ UNCHANGED <<missing, initialData, listFirst, phase, bmounted,
                        refs, effects, runs, onUnmount, disposed, container, childRoot>>
         /\ UNCHANGED <<items, dom, nextId, currentState, stateListeners, handles>>
         /\ UNCHANGED otherThanBlock
    ELSE /\ phase' = "unmounted"
         /\ container' = SelectSeq(container, LAMBDA n : n.kind # "root")
         /\ refs' = [i \in 1..Len(refs) |-> [refs[i] EXCEPT !.mounted = FALSE]]
         /\ childRoot' = IF IsMounted(refs, "block") THEN "removed" ELSE childRoot
         /\ IF IsMounted(refs, "list")
            THEN /\ items' = <<>>
                 /\ dom' = NodeRemove(UnmountAll(dom, items), placeholder)
            ELSE UNCHANGED <<items, dom>>
         /\ disposed' =
              [d \in Disposers |->
                 IF d = "dChild" THEN disposed[d] + (IF IsMounted(refs, "block") THEN 1 ELSE 0)
                 ELSE disposed[d] + Occurrences(Disposals(onUnmount), d)]
         /\ onUnmount' = IF Contains(Disposals(onUnmount), "removeListener")
                         THEN callbacksDelete(onUnmount, "removeListener")
                         ELSE onUnmount
         /\ IF Contains(Disposals(onUnmount), "removeListener")
            THEN /\ stateListeners' = Removed(stateListeners, handles[BlockHandle])
                 /\ handles' = [handles EXCEPT ![BlockHandle].active = FALSE]
            ELSE UNCHANGED <<stateListeners, handles>>
         /\ calls' = <<>>
         /\ slast' = SignalCall("unmount", 0, "")
         /\ events' = <<Event("remove", "root")>> \o UnmountEvents(refs, 1)
                        \o DisposeEvents(Disposals(onUnmount))
         /\ blast' = BlockCall("unmount", "void", 0, "")
         /\ UNCHANGED <<missing, initialData, listFirst, bmounted, effects,
                        runs, nextId, currentState>>
         /\ UNCHANGED otherThanBlock
         /\ \A d \in Disposers : disposed'[d] <= MaxDisposals

\* the refs the builder registers before its first context.effect call: the
\* list comes before e1 only when listFirst, and context.list itself calls
\* context.effect, before its refs.push, when it has initial data
RegisteredBeforeEffect ==
    IF listFirst /\ initialData = 0 THEN Registered
    ELSE SelectSeq(Registered, LAMBDA k : k # "list")

\* a ref registered by a run of the builder whose markup is never reached
UnrenderedRef(kind) == [kind |-> kind, mounted |-> FALSE, attrs |-> {}]

\* the registrations of a run of the builder on const refs rs: toggle()
\* unshifts its ref, the others push theirs
RECURSIVE Register(_, _)
Register(rs, new) ==
    IF new = <<>> THEN rs
    ELSE Register(IF Head(new).kind = "toggle"
                  THEN <<Head(new)>> \o rs
                  ELSE Append(rs, Head(new)),
                  Tail(new))

\* createTemplate's templateElement.innerHTML = templateString on the template
\* that still holds the markup of an earlier run: the elements that carried the
\* markers of the earlier refs are gone
Overwritten(rs) == [i \in 1..Len(rs) |-> [rs[i] EXCEPT !.attrs = {}]]

\* block.mount(templateElement) called again on a Block whose mount has
\* returned or thrown: there is no test of mounted, so the builder runs again
\* and registers its refs on the same const refs. Once let mounted is true
\* (it is never reset) the builder's first context.effect throws; the markup
\* is never reached, so the tree is left alone
mountAgain(data) ==
    /\ phase \in {"mounted", "unmounted", "failed"}
    /\ Len(refs) <= (MaxBuilds - 1) * Len(Registered)
    /\ IF bmounted
       THEN /\ refs' = Register(refs, [i \in 1..Len(RegisteredBeforeEffect) |->
                                         UnrenderedRef(RegisteredBeforeEffect[i])])
            /\ events' = <<Event("build", data)>>
                           \o [i \in 1..Len(RegisteredBeforeEffect) |->
                                 Event("register", RegisteredBeforeEffect[i])]
                           \o <<EffectOutcome(bmounted)>>
            /\ blast' = BlockCall("mount", "error", data, EffectLateError)
            /\ calls' = <<>>
            /\ slast' = SignalCall("mount", 0, "")
            /\ UNCHANGED <<effects, onUnmount, currentState, stateListeners, handles>>
       ELSE \* the first mount threw in createTemplate, before mounted = true:
            \* the builder runs to its end, registering its refs (with ids
            \* that go on from refs.length) and its effects again and
            \* subscribing a second wrapper of its listener (a new function,
            \* with a new remover, so neither Set merges them), whose first
            \* run is the one listener invocation of this call; the new
            \* markup, written over the old one, makes createTemplate throw
            \* again
            /\ refs' = Register(Overwritten(refs),
                                [i \in 1..Len(Registered) |->
                                    RefOf(Len(refs), Registered[i])])
            /\ effects' = effects \o BuilderEffects
            /\ onUnmount' = Append(onUnmount, "removeListener")
            /\ stateListeners' = Append(stateListeners, BlockListener)
            /\ handles' = Append(handles, [listener |-> BlockListener,
                                           group |-> "state", active |-> TRUE])
            /\ calls' = <<[listener |-> BlockListener, args |-> <<currentState>>]>>
            /\ slast' = SignalCall("on", BlockListener, "")
            /\ events' = <<Event("build", data)>>
                           \o [i \in 1..Len(Registered) |->
                                 Event("register", Registered[i])]
            /\ blast' = BlockCall("mount", "error", data, InvalidTemplateError)
            /\ UNCHANGED currentState
    /\ UNCHANGED <<missing, initialData, listFirst, phase, bmounted, runs,
                   disposed, container, childRoot>>
    /\ UNCHANGED <<items, dom, nextId>>
    /\ UNCHANGED otherThanBlock

\* the places in const refs of the refs of the builder's first run (the ones
\* its markup was rendered for): every later run unshifted one toggle ref
\* before them
FirstRun ==
    LET t == Cardinality({i \in 1..Len(refs) : refs[i].kind = "toggle"})
    IN  {i \in 1..Len(refs) : t <= i /\ i < t + Len(Registered)}

\* what the calls on a ref the builder holds never change
refFixed ==
    <<missing, initialData, listFirst, phase, bmounted, runs, onUnmount,
      container, nextId, currentState, stateListeners, handles>>

\* ref.unmount() on the i-th of const refs, a ref of the builder's first run,
\* called by the code that holds the ref: nothing unless mounted; else
\* mounted = false and the ref's onUnmount:
\* the nested-block ref unmounts its Block (root, then its disposer), the list
\* ref unmounts every item, empties the list and removes its placeholder
refUnmountAt(i) ==
    /\ refs' = [refs EXCEPT ![i].mounted = FALSE]
    /\ IF refs[i].mounted /\ refs[i].kind = "block"
       THEN /\ childRoot' = "removed"
            /\ disposed' = [disposed EXCEPT !["dChild"] = @ + 1]
            /\ disposed'["dChild"] <= MaxDisposals
       ELSE UNCHANGED <<childRoot, disposed>>
    /\ IF refs[i].mounted /\ refs[i].kind = "list"
       THEN /\ items' = <<>>
            /\ dom' = NodeRemove(UnmountAll(dom, items), placeholder)
       ELSE UNCHANGED <<items, dom>>
    /\ events' = UnmountEvents(<<refs[i]>>, 1)
    /\ blast' = BlockCall("ref.unmount", "void", 0, "")
    /\ calls' = <<>>
    /\ slast' = SignalCall("ref.unmount", 0, "")
    /\ UNCHANGED effects
    /\ UNCHANGED refFixed
    /\ UNCHANGED otherThanBlock

\* the elements ref.mount is handed, by tagName: a template element or another
\* element, attached to the document
TagNames == {"TEMPLATE", "DIV"}

\* ref.mount(element) on a ref of the builder's first run, called by the code
\* that holds the ref, with an element whose tagName is tag (a template only
\* for the nested-block ref): a mounted ref throws; else init runs and
\* mounted = true. The nested-block ref creates a new nested Block and mounts
\* it on the element, which throws from init unless the element is a
\* template; its builder runs again and, when late, calls the parent's
\* context.effect (late is an input of the runs of that builder only). The
\* list ref puts a new placeholder in the element's place
refMountAt(i, tag, late) ==
    /\ tag = "TEMPLATE" => refs[i].kind = "block"
    /\ late => (refs[i].kind = "block" /\ tag = "TEMPLATE" /\ ~refs[i].mounted)
    /\ IF refs[i].mounted \/ (refs[i].kind = "block" /\ tag # "TEMPLATE")
       THEN /\ blast' = BlockCall("ref.mount", "error", 0,
                                  IF refs[i].mounted THEN RemountError
                                  ELSE InvalidElementError)
            /\ events' = <<>>
            /\ UNCHANGED <<refs, effects, childRoot, dom>>
       ELSE /\ refs' = [refs EXCEPT ![i].mounted = TRUE]
            /\ IF refs[i].kind = "block"
               THEN /\ childRoot' = "attached"
                    /\ effects' = IF late
                                  THEN EffectAdded(bmounted, effects, "late")
                                  ELSE effects
                    /\ Len(effects') <= MaxEffects
               ELSE UNCHANGED <<childRoot, effects>>
            /\ dom' = IF refs[i].kind = "list" THEN Append(dom, placeholder) ELSE dom
            /\ events' = <<Event("mount", refs[i].kind)>>
                           \o (IF refs[i].kind = "block" /\ late
                               THEN <<EffectOutcome(bmounted)>> ELSE <<>>)
            /\ blast' = BlockCall("ref.mount", "void", 0, "")
    /\ calls' = <<>>
    /\ slast' = SignalCall("ref.mount", 0, "")
    /\ UNCHANGED <<items, disposed>>
    /\ UNCHANGED refFixed
    /\ UNCHANGED otherThanBlock

\* signal.set(nextState) on the signal the builder subscribed to: it calls
\* nothing on the Block
signalSet(nextState) ==
    /\ currentState' = nextState
    /\ calls' = SetCalls(nextState)
    /\ slast' = SignalCall("set", nextState, "value")
    /\ events' = <<>>
    /\ blast' = BlockCall("set", "void", 0, "")
    /\ UNCHANGED <<missing, initialData, listFirst, phase, bmounted, refs,
                   effects, runs, onUnmount, disposed, container, childRoot>>
    /\ UNCHANGED <<items, dom, nextId, stateListeners, handles>>
    /\ UNCHANGED otherThanBlock

\* the data render and block.mount are handed, and the values signal.set is
\* handed, while the Block is exercised: two of Values
BlockValues == {0, 1}

BlockNext ==
    \/ \E data \in BlockValues, roots \in RenderRoots, result \in RenderResults,
          late \in RenderLate : render(data, roots, result, late)
    \/ effect
    \/ unmount
    \/ \E data \in BlockValues : mountAgain(data)
    \/ \E i \in FirstRun : refUnmountAt(i)
    \/ \E i \in FirstRun, tag \in TagNames, late \in BOOLEAN : refMountAt(i, tag, late)
    \/ \E nextState \in BlockValues : signalSet(nextState)

BlockStart == BlockInit /\ ListUnmounted /\ SignalIdle /\ ToggleIdle /\ StyleIdle /\ ShowIdle

BlockSpec == BlockStart /\ [][BlockNext]_vars

(* ----------------------- class and style writers ----------------------- *)

\* the id each writer passes to setClass / setStyle: ref.class and ref.style
\* pass none (undefined), ref.update passes the ref's id
KeyOf(writer) == IF writer = "update2" THEN "id2" ELSE "undefined"

\* the key of the entry that holds the markup's own value: the element
ElementKey == "element"

HasKey(map, key) == \E i \in 1..Len(map) : map[i].key = key

ValueAt(map, key) == map[CHOOSE i \in 1..Len(map) : map[i].key = key].value

\* Map.prototype.set: an existing key keeps its place in the iteration order
MapSet(map, key, value) ==
    IF HasKey(map, key)
    THEN [i \in 1..Len(map) |-> IF map[i].key = key THEN Entry(key, value) ELSE map[i]]
    ELSE Append(map, Entry(key, value))

\* the map on its first use: created with the element's current value under
\* the element as key
MapCreated(map, base) == IF map = <<>> THEN <<Entry(ElementKey, Str(base))>> ELSE map

\* !value for the values written: "" and a missing value are falsy
Falsy(value) == value.type = "none" \/ (value.type = "string" /\ value.entries = <<>>)

KeysOf(entries) == [i \in 1..Len(entries) |-> entries[i].key]

\* setClass: classes.forEach pushing strings and the truthy keys of objects
RECURSIVE ClassNames(_, _)
ClassNames(map, i) ==
    IF i > Len(map) THEN <<>>
    ELSE (IF Falsy(map[i].value) THEN <<>>
          ELSE IF map[i].value.type = "string" THEN KeysOf(map[i].value.entries)
          ELSE KeysOf(SelectSeq(map[i].value.entries, LAMBDA e : e.value)))
         \o ClassNames(map, i + 1)

\* setClass: if (classNames.length) element.className = classNames.join(" ")
ClassNameAfter(old, classNames) == IF classNames # <<>> THEN classNames ELSE old

\* setStyle: the strings of the map, every one of them pushed to cssTexts
HasStrings(map) == \E i \in 1..Len(map) : map[i].value.type = "string"

RECURSIVE CssTexts(_, _)
CssTexts(map, i) ==
    IF i > Len(map) THEN <<>>
    ELSE (IF map[i].value.type = "string" THEN KeysOf(map[i].value.entries) ELSE <<>>)
         \o CssTexts(map, i + 1)

\* Object.assign(target, value) on style properties
Assigned(target, value) ==
    [n \in Names |->
        IF \E i \in 1..Len(value.entries) : value.entries[i].key = n
        THEN (IF value.entries[CHOOSE i \in 1..Len(value.entries) :
                                   value.entries[i].key = n].value
              THEN "on" ELSE "off")
        ELSE target[n]]

\* setStyle: Object.assign(cssProps, value) for every value that is no string
RECURSIVE CssProps(_, _, _)
CssProps(map, i, acc) ==
    IF i > Len(map) THEN acc
    ELSE CssProps(map, i + 1,
                  IF map[i].value.type = "object" THEN Assigned(acc, map[i].value) ELSE acc)

Unset == [n \in Names |-> "unset"]

\* the properties Object.assign(element.style, cssProps) leaves set: those of
\* cssProps over what the style held
Overlaid(target, cssProps) ==
    [n \in Names |-> IF cssProps[n] # "unset" THEN cssProps[n] ELSE target[n]]

\* updateElement calls setClass / setStyle only for a truthy class / style
Skipped(writer, value) == writer = "update2" /\ Falsy(value)

\* ref.class(value) / ref.update({class: value}): setClass(element, value, id)
setClass(writer, value) ==
    /\ attr = "class"
    /\ IF Skipped(writer, value) THEN UNCHANGED <<cmap, composed, supplied>>
       ELSE /\ supplied' = [supplied EXCEPT ![writer] = value]
            /\ LET map == MapSet(MapCreated(cmap, composed.text), KeyOf(writer), value)
               IN  /\ cmap' = map
                   /\ composed' =
                        [composed EXCEPT !.text = ClassNameAfter(@, ClassNames(map, 1))]
    /\ UNCHANGED attr
    /\ UNCHANGED otherThanStyle

\* ref.style(value) / ref.update({style: value}): setStyle(element, value, id);
\* assigning cssText replaces the whole inline style
setStyle(writer, value) ==
    /\ attr = "style"
    /\ IF Skipped(writer, value) THEN UNCHANGED <<cmap, composed, supplied>>
       ELSE /\ supplied' = [supplied EXCEPT ![writer] = value]
            /\ LET map == MapSet(MapCreated(cmap, composed.text), KeyOf(writer), value)
                   cssProps == CssProps(map, 1, Unset)
               IN  /\ cmap' = map
                   /\ composed' =
                        IF HasStrings(map)
                        THEN [text |-> CssTexts(map, 1),
                              props |-> Overlaid(Unset, cssProps)]
                        ELSE [composed EXCEPT !.props = Overlaid(@, cssProps)]
    /\ UNCHANGED attr
    /\ UNCHANGED otherThanStyle

StyleNext ==
    \/ \E writer \in Writers, value \in WriterValues : setClass(writer, value)
    \/ \E writer \in Writers, value \in WriterValues : setStyle(writer, value)

StyleStart == StyleInit /\ ListInit /\ SignalIdle /\ ToggleIdle /\ BlockIdle /\ ShowIdle

StyleSpec == StyleStart /\ [][StyleNext]_vars

(* ------------------------- claims on the List -------------------------- *)

\* the item roots that are live siblings before the placeholder, in document order
LiveRootsOf(d) ==
    IF Contains(d, placeholder) THEN SubSeq(d, 1, PosOf(d, placeholder) - 1) ELSE <<>>


\* x sits immediately before y in s
ImmediatelyBefore(s, x, y) == \E i \in 1..(Len(s) - 1) : s[i] = x /\ s[i + 1] = y

\* s with every a replaced by b and every b by a
Exchanged(s, a, b) ==
    [i \in 1..Len(s) |-> IF s[i] = a THEN b ELSE IF s[i] = b THEN a ELSE s[i]]

\* s without the entries at the (0-based) indices of drop
RECURSIVE KeepFrom(_, _, _)
KeepFrom(s, drop, i) ==
    IF i >= Len(s) THEN <<>>
    ELSE (IF i \in drop THEN <<>> ELSE <<At(s, i)>>) \o KeepFrom(s, drop, i + 1)

\* the arguments the calls are made with
CallIndices == (-1)..(MaxLen + 1)
CallCounts == {0, 1, 2, NumberMaxValue}

StructuralCalls ==
    {"push", "pop", "shift", "unshift", "insert", "removeWhere", "removeIndex",
     "removeCount", "swap", "move", "sort"}

\* C1: after each push/pop/shift/unshift/insert/remove/swap/move/sort the backing
\* sequence equals, in order, the item roots that are live siblings before the
\* placeholder, and the placeholder is the rightmost node of the managed run.
C1_BackingOrderIsTreeOrder ==
    last.op \in StructuralCalls =>
        /\ Contains(dom, placeholder)
        /\ dom[Len(dom)] = placeholder
        /\ items = LiveRootsOf(dom)

MoveContract(from, to) ==
    IF InvalidPair(from, to)
    THEN items' = items /\ dom' = dom
    ELSE /\ Len(items') = Len(items)
         /\ \A b \in Blocks : Contains(items, b) => Occurrences(items', b) = 1
         /\ ImmediatelyBefore(items', At(items, from), At(items, to))
         /\ ImmediatelyBefore(dom', At(items, from), At(items, to))
         /\ Without(items', At(items, from)) = Without(items, At(items, from))
         /\ Without(dom', At(items, from)) = Without(dom, At(items, from))

\* C2: move(from, to) changes nothing when from = to, an index is out of range
\* or the list is empty; otherwise the size is kept, every entry occurs exactly
\* once, the from entry sits immediately before the entry that was at to in the
\* backing sequence and in the tree, and the other entries keep their order.
C2_MoveRelocates ==
    [][\A from \in CallIndices, to \in CallIndices :
          move(from, to) => MoveContract(from, to)]_vars

SwapContract(from, to) ==
    IF InvalidPair(from, to)
    THEN items' = items /\ dom' = dom
    ELSE /\ items' = [items EXCEPT ![from + 1] = At(items, to),
                                   ![to + 1] = At(items, from)]
         /\ dom' = Exchanged(dom, At(items, from), At(items, to))

\* C3: swap(from, to) changes nothing when the indices are equal, out of range,
\* or the list is empty; for every other pair, adjacent or not and in either
\* order, the two entries exchange their positions in the backing sequence and
\* in the tree, and every other entry stays where it is.
C3_SwapExchanges ==
    [][\A from \in CallIndices, to \in CallIndices :
          swap(from, to) => SwapContract(from, to)]_vars

SortContract(cmp) ==
    IF items = <<>>
    THEN items' = items /\ dom' = dom
    ELSE /\ Len(items') = Len(items)
         /\ \A b \in Blocks : Occurrences(items', b) = Occurrences(items, b)
         /\ \A i \in 1..(Len(items') - 1) : sortFn(cmp, items'[i], items'[i + 1]) <= 0
         /\ LiveRootsOf(dom') = items'
         /\ dom'[Len(dom')] = placeholder

\* C4: sort(cmp) leaves the same entries in an order consistent with cmp (for
\* consecutive entries a then b, cmp(a, b) <= 0), the tree is threaded in that
\* same order with the last element immediately before the placeholder; on an
\* empty list nothing changes.
C4_SortOrdersByComparator ==
    [][\A cmp \in Comparators : sort(cmp) => SortContract(cmp)]_vars

\* C5: first() and last() return the controller of the first / last entry when
\* the list has an entry, fail with the "empty list" error exactly when it has
\* none, and change nothing.
C5_FirstLastOfList ==
    [][/\ first =>
            /\ items' = items /\ dom' = dom
            /\ IF Len(items) >= 1
               THEN last'.kind = "ctrl" /\ last'.val = <<At(items, 0)>>
               ELSE last'.kind = "error" /\ last'.msg = EmptyFirstError
       /\ lastItem =>
            /\ items' = items /\ dom' = dom
            /\ IF Len(items) >= 1
               THEN last'.kind = "ctrl" /\ last'.val = <<At(items, Len(items) - 1)>>
               ELSE last'.kind = "error" /\ last'.msg = EmptyLastError]_vars

\* the entries at the indices index..index+count-1 that exist
RunAt(s, index, count) == SubSeq(s, Max(index, 0) + 1, Min(index + count, Len(s)))

RunIndices(s, index, count) == {i \in 0..(Len(s) - 1) : index <= i /\ i < index + count}

\* C6: remove(index) removes and unmounts the entry at index and returns its
\* controller, or undefined when there is no such entry; remove(index, count)
\* removes and unmounts the run index..index+count-1 and returns the removed
\* entries' controllers in order.
C6_RemoveByIndexReturns ==
    [][/\ \A index \in CallIndices :
            removeIndex(index) =>
              /\ items' = KeepFrom(items, RunIndices(items, index, 1), 0)
              /\ dom' = UnmountAll(dom, RunAt(items, index, 1))
              /\ last'.un = RunAt(items, index, 1)
              /\ IF InRange(items, index)
                 THEN last'.kind = "ctrl" /\ last'.val = <<At(items, index)>>
                 ELSE last'.kind = "absent"
       /\ \A index \in CallIndices, count \in 0..2 :
            removeCount(index, count) =>
              /\ items' = KeepFrom(items, RunIndices(items, index, count), 0)
              /\ dom' = UnmountAll(dom, RunAt(items, index, count))
              /\ last'.un = RunAt(items, index, count)
              /\ last'.kind = "list"
              /\ last'.val = RunAt(items, index, count)]_vars

\* the indices of the entries of s the predicate holds for, in scan order
RECURSIVE MatchesFrom(_, _, _)
MatchesFrom(s, pred, i) ==
    IF i >= Len(s) THEN <<>>
    ELSE (IF Holds(pred, At(s, i), i) THEN <<i>> ELSE <<>>) \o MatchesFrom(s, pred, i + 1)

\* the first min(count, m) of the m matching indices (all of them by default)
FirstMatches(s, pred, count) ==
    LET m == MatchesFrom(s, pred, 0)
    IN  SubSeq(m, 1, IF count = NumberMaxValue THEN Len(m) ELSE Min(count, Len(m)))

RemoveWhereContract(pred, count) ==
    LET idx == FirstMatches(items, pred, count)
        gone == [k \in 1..Len(idx) |-> At(items, idx[k])]
    IN  /\ items' = KeepFrom(items, {idx[k] : k \in 1..Len(idx)}, 0)
        /\ dom' = UnmountAll(dom, gone)
        /\ last'.kind = "list"
        /\ last'.val = gone
        /\ last'.un = gone

\* C7: remove(predicate, count) removes and unmounts exactly the first
\* min(count, m) entries, in scan order, for which predicate(controller, i)
\* holds (i the index before this call removes anything, m the number of
\* matches, count any integer >= 0 and unbounded by default), returns their
\* controllers in scan order and keeps the other entries in their order.
C7_RemoveWhereTakesFirstMatches ==
    [][\A pred \in Predicates, count \in CallCounts :
          removeWhere(pred, count) => RemoveWhereContract(pred, count)]_vars

SetContract(index) ==
    IF index < 0 \/ index >= Len(items)
    THEN /\ last'.kind = "error" /\ last'.msg = RangeError
         /\ items' = items /\ dom' = dom /\ last'.un = <<>>
    ELSE /\ Len(items') = Len(items)
         /\ ~Contains(items, At(items', index)) /\ ~Contains(dom, At(items', index))
         /\ Contains(dom, At(items, index))
         /\ dom' = [i \in 1..Len(dom) |->
                      IF dom[i] = At(items, index) THEN At(items', index) ELSE dom[i]]
         /\ last'.un = <<At(items, index)>>
         /\ \A j \in 0..(Len(items) - 1) :
              j # index =>
                /\ At(items', j) = At(items, j)
                /\ Contains(dom', At(items, j)) <=> Contains(dom, At(items, j))

\* C8: set(index, data) with index < 0 or index >= size fails with the range
\* error and changes nothing; with an index in range the size is kept, position
\* index holds a newly built Block whose root is where the old entry's root
\* was, the old entry is unmounted exactly once, and every other entry is
\* untouched.
C8_SetReplacesInPlace ==
    [][\A index \in CallIndices : set(index) => SetContract(index)]_vars

(* ------------------------ claims on the Signal ------------------------- *)

\* every listener of the group is invoked exactly once with args, in the
\* group's order
NotifiedInOrder(cs, callbacks, args) ==
    /\ Len(cs) = Len(callbacks)
    /\ \A i \in 1..Len(cs) : cs[i] = [listener |-> callbacks[i], args |-> args]

\* the invocations of cs made with one argument (those of state listeners)
StateCallsOf(cs) == SelectSeq(cs, LAMBDA c : Len(c.args) = 1)

SetContractOfSignal(resolved) ==
    IF resolved = currentState
    THEN /\ calls' = <<>>
         /\ UNCHANGED <<currentState, stateListeners, actionListeners, handles>>
    ELSE /\ currentState' = resolved
         /\ NotifiedInOrder(calls', stateListeners, <<resolved>>)
         /\ UNCHANGED <<stateListeners, actionListeners, handles>>

\* a subscriber set keeps the order of subscription: a listener that joins goes
\* last, and the listeners that stay keep their relative order
KeepsSubscriptionOrder(before, after) ==
    /\ \A l \in Listeners :
         ~Contains(before, l) /\ Contains(after, l) => after = Append(before, l)
    /\ SelectSeq(before, LAMBDA l : Contains(after, l))
         = SelectSeq(after, LAMBDA l : Contains(before, l))

\* C9: a set (of a value or of an updater) whose resolved value is the current
\* value notifies no state subscriber and changes nothing; a set whose resolved
\* value differs stores it and invokes every subscribed state listener exactly
\* once with the new value, in subscription order.
C9_SetNotifiesOnChangeOnly ==
    [][/\ \A nextState \in Values :
            setValue(nextState) => SetContractOfSignal(nextState)
       /\ \A updater \in Updaters :
            setUpdater(updater) => SetContractOfSignal(Apply(updater, currentState))
       /\ KeepsSubscriptionOrder(stateListeners, stateListeners')]_vars

\* a set that differs reached two subscribers
C9_Witness ==
    /\ slast.op = "set"
    /\ Len(calls) >= 2
    /\ calls[1].listener # calls[2].listener

\* C10: on(listener, "state") invokes the listener exactly once, at once, with
\* the current value, and afterwards once per later distinct set until it is
\* unsubscribed; on(listener, "action") does not invoke it at subscription;
\* the returned function stops all further invocations, and calling it again
\* has no effect.
C10_SubscribeReplaysAndUnsubscribes ==
    [][/\ \A l \in Listeners :
            on(l, "state") =>
              /\ calls' = <<[listener |-> l, args |-> <<currentState>>]>>
              /\ Contains(stateListeners', l)
       /\ \A l \in Listeners :
            on(l, "action") => calls' = <<>> /\ Contains(actionListeners', l)
       /\ slast'.op \in {"set", "emit"} =>
            IF currentState' = currentState
            THEN StateCallsOf(calls') = <<>>
            ELSE NotifiedInOrder(StateCallsOf(calls'), stateListeners, <<currentState'>>)
       /\ \A l \in Listeners :
            Contains(stateListeners, l) /\ ~Contains(stateListeners', l) =>
              /\ slast'.op = "unsubscribe"
              /\ handles[slast'.n].listener = l
       /\ \A h \in 1..Len(handles) :
            unsubscribe(h) =>
              /\ calls' = <<>>
              /\ IF handles[h].active
                 THEN ~Contains(IF handles[h].group = "action"
                                THEN actionListeners' ELSE stateListeners',
                                handles[h].listener)
                 ELSE UNCHANGED <<stateListeners, actionListeners, handles>>]_vars

\* the function on returned is called a second time while the same listener is
\* subscribed again
C10_Witness ==
    /\ slast.op = "unsubscribe"
    /\ slast.t = "spent"
    /\ handles[slast.n].group = "state"
    /\ Contains(stateListeners, handles[slast.n].listener)
    /\ \E h \in 1..Len(handles) : handles[h].active /\ handles[h].group = "state"
                                     /\ handles[h].listener = handles[slast.n].listener

\* what emit(action) owes: the action listeners first, each once with (old, action)
\* in subscription order; then reducer(old, action) stored; then, only when it
\* differs from old, the state listeners, each once with the result
EmitContract(action) ==
    LET old == currentState
        result == Reduce(currentState, action)
        n == Len(actionListeners)
        m == IF result = old THEN 0 ELSE Len(stateListeners)
    IN  /\ currentState' = result
        /\ Len(calls') = n + m
        /\ \A i \in 1..n :
               calls'[i] = [listener |-> actionListeners[i], args |-> <<old, action>>]
        /\ \A j \in 1..m :
               calls'[n + j] = [listener |-> stateListeners[j], args |-> <<result>>]
        /\ UNCHANGED <<stateListeners, actionListeners>>

\* C11: emit(action) on an emit-mode signal with value old first notifies every
\* action subscriber with (old, action), only afterwards stores reducer(old, action)
\* and notifies the state subscribers with that result; no state subscriber is
\* notified before all action subscribers, and none at all when the result is
\* identical to old.
C11_EmitNotifiesActionsThenState ==
    [][\A action \in Values : emit(action) => EmitContract(action)]_vars

\* an emit that changed the value with an action subscriber and a state subscriber
C11_Witness ==
    /\ slast.op = "emit"
    /\ Len(calls) >= 2
    /\ Len(calls[1].args) = 2
    /\ Len(calls[Len(calls)].args) = 1
    /\ calls[Len(calls)].args[1] = currentState
    /\ calls[1].args[1] # currentState

(* ------------------------ claims on Ref and Toggle --------------------- *)

\* the state a failed or idle call on the ref must leave alone
RefState == <<mounted, hooks, visible, tplaceholder, tdom>>

\* C12: invoking the ref while unmounted (before the first mount or after an
\* unmount) fails; mount on a mounted ref fails and leaves it mounted without
\* running the initializer or the hooks again; unmount on an unmounted ref is a
\* no-op, so onUnmount has run exactly once for every completed mount that has
\* been unmounted.
C12_RefLifecycle ==
    [][/\ (refCall /\ ~mounted) =>
            (tlast'.kind = "error" /\ tlast'.msg = NotMountedError)
       /\ (refCall /\ mounted) => tlast'.kind = "element"
       /\ (refMount /\ mounted) =>
            (tlast'.kind = "error" /\ tlast'.msg = RemountError /\ UNCHANGED RefState)
       /\ (refMount /\ ~mounted) =>
            (mounted' /\ hooks'.init = hooks.init + 1 /\ hooks'.onMount = hooks.onMount + 1)
       /\ (refUnmount /\ ~mounted) => (tlast'.kind = "void" /\ UNCHANGED RefState)
       /\ (refUnmount /\ mounted) =>
            (~mounted' /\ hooks'.onUnmount = hooks.onUnmount + 1)
       /\ hooks'.onMount = hooks'.init
       /\ hooks'.onUnmount + (IF mounted' THEN 1 ELSE 0) = hooks'.onMount]_vars

\* a mount refused on a ref that is mounted for the second time
C12_Witness ==
    /\ tlast.op = "mount"
    /\ tlast.kind = "error"
    /\ mounted
    /\ hooks.onUnmount >= 1

\* the toggled element is a live sibling immediately before the placeholder
AttachedAtPlaceholder == ImmediatelyBefore(tdom, Element, tplaceholder)

\* C16: for either initial visibility, immediately after the toggle's ref is
\* mounted and after any later show / hide / toggle / visible assignment,
\* toggle.visible is true iff the subtree is attached immediately before its
\* placeholder, and false iff it is detached.
C16_VisibleIffAttached ==
    hooks.init >= 1 =>
        /\ visible <=> AttachedAtPlaceholder
        /\ ~visible <=> ~Contains(tdom, Element)

\* x comes before y among the children d
Precedes(d, x, y) ==
    Contains(d, x) /\ Contains(d, y) /\ PosOf(d, x) < PosOf(d, y)

\* C17: a toggle that starts visible and was mounted (once) with its subtree
\* between siblings A and B has the subtree between A and B again (after A,
\* before B, never at the end of the parent) whenever it is shown, after any
\* number of hide / show cycles, and A and B keep their relative order.
C17_ShowRestoresPosition ==
    (initialVisible /\ hooks.init = 1 /\ visible) =>
        /\ Precedes(tdom, SiblingA, Element)
        /\ Precedes(tdom, Element, SiblingB)
        /\ tdom[Len(tdom)] # Element
        /\ Precedes(tdom, SiblingA, SiblingB)

\* a show that brought the subtree back after it had been hidden
C17_Witness ==
    /\ initialVisible
    /\ hooks.init = 1
    /\ tlast.op = "show"
    /\ ~tlast.was
    /\ visible
    /\ Contains(tdom, Element)

(* -------------------------- claims on the Block ------------------------ *)

\* positions in the event sequence es of the events named ev
EventsAt(es, ev) == {i \in 1..Len(es) : es[i].ev = ev}

\* the disposers the Block itself collected: each effect's returned disposer and
\* each context.on remover
OwnDisposers == {d \in Disposers : Contains(onUnmount, d)}

\* what block.unmount() owes on a mounted Block
UnmountContract ==
    /\ \A i \in 1..Len(container') : container'[i].kind # "root"
    /\ Len(events') >= 1 /\ events'[1] = Event("remove", "root")
    /\ \A i \in 1..Len(refs') : ~refs'[i].mounted
    /\ IsMounted(refs, "block") =>
          (childRoot' = "removed" /\ disposed'["dChild"] = disposed["dChild"] + 1)
    /\ IsMounted(refs, "list") =>
          (items' = <<>> /\ \A i \in 1..Len(items) : ~Contains(dom', items[i]))
    /\ \A d \in OwnDisposers :
          /\ disposed'[d] = disposed[d] + 1
          /\ disposed'[d] = 1
          /\ \E i \in EventsAt(events', "dispose") :
                /\ events'[i].of = d
                /\ \A j \in EventsAt(events', "unmount") \cup EventsAt(events', "skip") :
                      j < i
    /\ ~Contains(stateListeners', BlockListener)

\* C13: unmounting a mounted Block removes its root from the tree, leaves every
\* ref it registered unmounted (the nested Block unmounted, the list emptied with
\* every entry unmounted), and invokes every disposer it collected exactly once,
\* after the refs have been unmounted; afterwards no later signal change invokes
\* the listener the Block subscribed through context.on.
C13_UnmountReleasesEverything ==
    [][/\ (phase = "mounted" /\ unmount) => UnmountContract
       /\ \A v \in Values :
             (phase = "unmounted" /\ signalSet(v)) =>
                 \A i \in 1..Len(calls') : calls'[i].listener # BlockListener]_vars

\* a signal change after the unmount of a Block that had a nested Block, list
\* entries, an effect disposer and a subscription
C13_Witness ==
    /\ phase = "unmounted"
    /\ slast.op = "set"
    /\ currentState # 0
    /\ calls = <<>>
    /\ childRoot = "removed"
    /\ nextId >= 1
    /\ items = <<>>
    /\ \A d \in Disposers : disposed[d] = 1

\* C14: context.effect called after the Block's mounting has begun (during ref
\* resolution, during effect execution, after mount, after unmount) fails with
\* the "effect registered too late" error and adds no effect; the effect e1 the
\* builder registered while it was running has run exactly once when the mount
\* of a well-formed template is over, and never runs again.
C14_EffectTooLate ==
    [][/\ \A data \in Values, result \in RenderResults, late \in RenderLate :
             render(data, 1, result, late) =>
                 /\ \A i \in EventsAt(events', "effect") : events'[i].of = "error"
                 /\ ~Contains(effects', "late")
                 /\ Contains(effects', "e1")
                 /\ runs'["e1"] = 1
       /\ (effect /\ bmounted) =>
             /\ blast'.kind = "error"
             /\ blast'.msg = EffectLateError
             /\ effects' = effects
       /\ runs'["e1"] <= 1]_vars

\* the refs whose marker the markup carries are exactly the mounted ones
PresentRefsMounted(rs) ==
    \A i \in 1..Len(rs) : rs[i].mounted <=> rs[i].kind \notin missing

\* C15: when the marker of a registered ref (element, nested-block, toggle or
\* list ref, the list with or without initial data) is not in the rendered
\* markup, the mount does not fail: that ref stays unmounted, every ref whose
\* marker is present is mounted, and every effect runs to completion.
C15_MissingMarkerIsSoft ==
    [][\A data \in Values, result \in RenderResults, late \in RenderLate :
          render(data, 1, result, late) =>
              /\ blast'.kind # "error"
              /\ phase' = "mounted"
              /\ PresentRefsMounted(refs')
              /\ \A i \in 1..Len(effects') : runs'[effects'[i]] = 1]_vars

\* C20: render(container, builder, data) invokes the builder exactly once with
\* (context, data), leaves the container holding exactly the builder's rendered
\* root (no template anchor, no prior content), whose text is what the builder
\* rendered, and returns the builder's controller ({} for a bare markup string).
C20_RenderReplacesContainer ==
    [][\A data \in Values, result \in RenderResults, late \in RenderLate :
          render(data, 1, result, late) =>
              /\ Cardinality(EventsAt(events', "build")) = 1
              /\ \A i \in EventsAt(events', "build") : events'[i].of = data
              /\ container' = <<Root(data)>>
              /\ blast'.kind = (IF result = "string" THEN "empty" ELSE "result")
              /\ blast'.data = data]_vars

(* --------------------- claims on class and style writers --------------- *)

\* the names a value contributes to className: a string's names, an object's
\* keys whose value is truthy
Contribution(value) == {e.key : e \in {x \in Range(value.entries) : x.value}}

\* C18: every class / style writer of an element is keyed by its own identity:
\* whatever two element refs (through ref.class / ref.style / ref.update) and
\* the markup have written in whatever order, the composition map holds each
\* writer's last-supplied value under that writer's key, the markup's value
\* under the element, and every writer's class names are in the composed class.
C18_WritersKeepOwnEntries ==
    cmap # <<>> =>
        /\ HasKey(cmap, ElementKey)
        /\ \A w \in Writers :
              supplied[w] # NoValue =>
                  /\ HasKey(cmap, KeyOf(w))
                  /\ ValueAt(cmap, KeyOf(w)) = supplied[w]
                  /\ attr = "class" => Contribution(supplied[w]) \subseteq Range(composed.text)

\* the fold of the map entries in insertion order: nothing for a falsy value,
\* the names of a string, the truthy keys of an object
RECURSIVE FoldClasses(_)
FoldClasses(map) ==
    IF map = <<>> THEN <<>>
    ELSE LET value == Head(map).value
         IN  KeysOf(SelectSeq(value.entries, LAMBDA e : e.value)) \o FoldClasses(Tail(map))

\* C19: after every setClass call className equals the fold over all owners'
\* current entries in owner-insertion order; a class name whose value has become
\* falsy is absent from className even when no other class remains.
C19_ClassNameIsFold ==
    (attr = "class" /\ cmap # <<>>) => composed.text = FoldClasses(cmap)


(* ------------------- claims on repeated list calls --------------------- *)

\* C21: for all valid indices i # j, swap(i, j) followed by swap(i, j) leaves
\* the Blocks of the list and the children of its parent exactly as they were
\* before the first swap
C21_SwapTwiceRestores ==
    \A i \in 0..(Len(items) - 1), j \in 0..(Len(items) - 1) :
        i # j =>
            LET once == Swapped(items, dom, i, j)
                twice == Swapped(once.items, once.dom, i, j)
            IN twice.items = items /\ twice.dom = dom

\* C22: sort(cmp) called twice with the same comparator leaves the Blocks and
\* the children exactly as the first call left them, also when the comparator
\* finds some Blocks equal
C22_SortTwiceIdempotent ==
    \A cmp \in Comparators :
        LET once == Sorted(items, dom, cmp)
            twice == Sorted(once.items, once.dom, cmp)
        IN twice = once

\* a list of several Blocks, two of them equal under the parity comparator,
\* that sort has just been called on
C22_Witness ==
    /\ last.op = "sort"
    /\ Len(items) >= 2
    /\ \E a \in Range(items), b \in Range(items) :
           a # b /\ sortFn("parity", a, b) = 0


(* ---------------------- claims on the Block's mount -------------------- *)

\* what the events named in evs are about, in the order they happened
RECURSIVE AboutOf(_, _)
AboutOf(es, evs) ==
    IF es = <<>> THEN <<>>
    ELSE (IF Head(es).ev \in evs /\ Head(es).of \in RefKinds
          THEN <<Head(es).of>> ELSE <<>>) \o AboutOf(Tail(es), evs)

\* C23: block.mount resolves the refs in the order they were registered,
\* whatever their kind, and runs every effect after all refs, in the order the
\* effects were registered; block.unmount unmounts the refs in registration
\* order.
C23_RegistrationOrder ==
    /\ (blast.op = "render" /\ phase = "mounted") =>
          /\ AboutOf(events, {"mount", "warn"}) = Registered
          /\ \A i \in EventsAt(events, "mount") \cup EventsAt(events, "warn"),
                j \in EventsAt(events, "run") \cup EventsAt(events, "push") : i < j
          /\ \A i \in EventsAt(events, "push"), j \in EventsAt(events, "run") :
                (i < j) <=> listFirst
    /\ (blast.op = "unmount" /\ blast.kind = "void" /\ Len(refs) = Len(Registered)) =>
          AboutOf(events, {"unmount", "skip"}) = Registered


\* C24: the element that ref resolution matched for a ref with identity id no
\* longer carries the marker attribute data-ref-<id> once the Block is mounted
C24_MarkerStripped ==
    (blast.op = "render" /\ bmounted) =>
        \A i \in 1..Len(refs) :
            refs[i].mounted =>
                generateRefAttribute(generateRefId(0, refs[i].kind)) \notin refs[i].attrs


\* C25: a Block is mounted at most once: block.mount called on a Block that is
\* mounted, or that has been unmounted, fails at once without running the
\* builder again, registering further refs or effects, or changing the tree.
C25_MountedAtMostOnce ==
    [][\A data \in Values :
          (phase \in {"mounted", "unmounted"} /\ mountAgain(data)) =>
              /\ blast'.kind = "error"
              /\ EventsAt(events', "build") = {}
              /\ refs' = refs
              /\ effects' = effects
              /\ container' = container]_vars


(* ------------------- claims on re-entrant notification ----------------- *)

\* the arguments of the last invocation of listener l among cs
LastDelivered(cs, l) ==
    cs[CHOOSE i \in 1..Len(cs) :
          cs[i].listener = l /\ \A j \in (i + 1)..Len(cs) : cs[j].listener # l].args

\* C26: when a state subscriber calls set on the same signal during a
\* notification, then once the outermost set has returned the value last
\* delivered to every state subscriber is the signal's current value.
C26_NoStaleSubscriber ==
    [][\A nextState \in Values, r \in Listeners, target \in Values :
          setReentrant(nextState, r, target) =>
              \A i \in 1..Len(calls') :
                  LastDelivered(calls', calls'[i].listener) = <<currentState'>>]_vars


(* ---------------------- claims on the list's Blocks -------------------- *)

\* C27: over any sequence of list calls followed by the unmount of the owning
\* Block, unmount() runs exactly once on every item Block the list created:
\* every call runs it once on each Block that leaves the list with that call
\* and on no other Block, and the unmount of the list's ref leaves the list
\* empty.
C27_ItemsUnmountedOnce ==
    [][/\ \A b \in Blocks :
             Occurrences(last'.un, b) =
                 (IF Contains(items, b) /\ ~Contains(items', b) THEN 1 ELSE 0)
       /\ (listUnmount /\ Contains(dom, placeholder)) => items' = <<>>]_vars


(* ------------- the Block with a signal-driven show binding ------------- *)

(* the Block under study here is built by a builder that calls
   context.on(signal).show() and context.ref(), in the order bindingFirst tells,
   and renders a root whose children are a sibling, the element show() governs
   and another sibling; the element ref's marker is on a descendant of the
   governed element (inside) or on the last sibling *)
ShownKinds == IF bindingFirst THEN <<"show", "element">> ELSE <<"element", "show">>

(* the values toggle.visible takes in this Block: the booleans createToggle and
   its onMount assign, and the signal's values, which the binding's listener
   assigns as they are; two values are the same value (===) only when type and
   value agree, so true and 1 differ *)
JsValue(type, n) == [type |-> type, n |-> n]

JsBoolean(b) == JsValue("boolean", IF b THEN 1 ELSE 0)

\* if (visible): every value but false and 0 counts as true
Truthy(v) == v.n # 0

\* createToggle(id, true, onMount) of the binding, with the governed element
\* between the siblings A and B: let visible = false
ShownToggle ==
    /\ initialVisible = TRUE
    /\ mounted = FALSE
    /\ visible = JsBoolean(FALSE)
    /\ tplaceholder = NoNode
    /\ tdom = <<SiblingA, Element, SiblingB>>
    /\ hooks = [init |-> 0, onMount |-> 0, onUnmount |-> 0]
    /\ tlast = ToggleCall("init", "void", "", JsBoolean(FALSE))

\* the setter of toggle.visible run on (vis, ph, d) with a value of either
\* type: the same value returns at once; any other value is stored as it is
\* and the element is inserted before the placeholder when the value counts as
\* true, removed when it does not
ShownAssigned(value, vis, ph, d) ==
    IF value = vis THEN [visible |-> vis, dom |-> d, kind |-> "void", msg |-> ""]
    ELSE IF ph = NoNode
         THEN [visible |-> value, dom |-> d, kind |-> "error", msg |-> TypeError]
    ELSE [visible |-> value,
          dom |-> IF Truthy(value) THEN insertBefore(d, ph, Element)
                  ELSE NodeRemove(d, Element),
          kind |-> "void", msg |-> ""]

\* const refs after the builder: both registrations push
ShownRefs ==
    [i \in 1..Len(ShownKinds) |->
        [kind |-> ShownKinds[i], mounted |-> FALSE,
         attrs |-> {generateRefAttribute(i - 1)}]]

\* rootElement.querySelector of the element ref's marker among the root's
\* children d: a descendant of the governed element is found only while that
\* element is attached
MarkerFound(d) == ~inside \/ Contains(d, Element)

\* mountRefs from ref i on. The show binding's ref: init puts the placeholder
\* before the element, onMount assigns toggle.visible = true and then
\* subscribes with context.on(signal, listener), whose first run assigns
\* toggle.visible the signal's value. The element ref: mounted when its marker
\* is found, else skipped with a warning.
RECURSIVE ResolveShown(_, _)
ResolveShown(i, st) ==
    IF i > Len(st.refs) THEN st
    ELSE IF st.refs[i].kind = "show"
    THEN LET ph == Text(1)
             shown == ShownAssigned(JsBoolean(initialVisible), st.visible, ph,
                                    insertBefore(st.dom, Element, ph))
             ran == ShownAssigned(JsValue("number", currentState), shown.visible,
                                  ph, shown.dom)
         IN  ResolveShown(i + 1,
                [st EXCEPT !.dom = ran.dom, !.visible = ran.visible, !.ph = ph,
                           !.refs[i].mounted = TRUE,
                           !.events = Append(@, Event("mount", "show"))])
    ELSE IF MarkerFound(st.dom)
    THEN ResolveShown(i + 1,
                [st EXCEPT !.refs[i].mounted = TRUE,
                           !.events = Append(@, Event("mount", "element"))])
    ELSE ResolveShown(i + 1,
                [st EXCEPT !.events = Append(@, Event("warn", "element"))])

\* what the calls on this Block never change
showFixed ==
    <<listVars, styleVars, showVars, reducer, actionListeners, initialVisible,
      missing, initialData, listFirst, effects, runs, childRoot>>

\* render(container, builder): block.mount up to the end of mountRefs (the
\* builder registers no effect)
showRender ==
    /\ phase = "created"
    /\ LET st == ResolveShown(1, [dom |-> tdom, visible |-> visible,
                                  ph |-> tplaceholder, refs |-> ShownRefs,
                                  events |-> <<Event("build", 0)>>])
       IN  /\ refs' = st.refs
           /\ tdom' = st.dom
           /\ visible' = st.visible
           /\ tplaceholder' = st.ph
           /\ events' = st.events
    /\ Subscribed
    /\ mounted' = TRUE
    /\ hooks' = [hooks EXCEPT !.init = @ + 1, !.onMount = @ + 1]
    /\ tlast' = ToggleCall("mount", "void", "", visible)
    /\ phase' = "mounted"
    /\ bmounted' = TRUE
    /\ container' = <<Root(0)>>
    /\ onUnmount' = <<"removeListener">>
    /\ UNCHANGED disposed
    /\ blast' = BlockCall("render", "empty", 0, "")
    /\ UNCHANGED showFixed

\* signal.set(nextState): a change runs the binding's listener while it is
\* subscribed, which assigns toggle.visible
showSet(nextState) ==
    /\ currentState' = nextState
    /\ calls' = SetCalls(nextState)
    /\ slast' = SignalCall("set", nextState, "value")
    /\ IF currentState # nextState /\ Contains(stateListeners, BlockListener)
       THEN LET r == ShownAssigned(JsValue("number", nextState), visible,
                                   tplaceholder, tdom)
            IN  /\ visible' = r.visible
                /\ tdom' = r.dom
                /\ tlast' = ToggleCall("visible", r.kind, r.msg, visible)
       ELSE UNCHANGED <<visible, tdom, tlast>>
    /\ events' = <<>>
    /\ blast' = BlockCall("set", "void", 0, "")
    /\ UNCHANGED <<stateListeners, handles, mounted, tplaceholder, hooks, phase,
                   bmounted, refs, onUnmount, container, disposed>>
    /\ UNCHANGED showFixed

\* ref(): the element ref called as a function
elementCall ==
    /\ phase # "created"
    /\ blast' = IF IsMounted(refs, "element") THEN BlockCall("call", "element", 0, "")
                ELSE BlockCall("call", "error", 0, NotMountedError)
    /\ events' = <<>>
    /\ calls' = <<>>
    /\ slast' = SignalCall("call", 0, "")
    /\ UNCHANGED <<currentState, stateListeners, handles, mounted, visible,
                   tplaceholder, tdom, hooks, tlast, phase, bmounted, refs,
                   onUnmount, container, disposed>>
    /\ UNCHANGED showFixed

\* block.unmount(): there is no test of mounted. Before the mount rootElement
\* is undefined and rootElement.remove() throws; else the root leaves the
\* container, every ref is unmounted, and every remover in onUnmount runs,
\* deleting itself and its subscription
showUnmount ==
    IF ~bmounted
    THEN /\ blast' = BlockCall("unmount", "error", 0, TypeError)
         /\ events' = <<>>
         /\ calls' = <<>>
         /\ slast' = SignalCall("unmount", 0, "")
         /\ UNCHANGED <<currentState, stateListeners, handles, mounted, visible,
                        tplaceholder, tdom, hooks, tlast, phase, bmounted, refs,
                        onUnmount, container, disposed>>
         /\ UNCHANGED showFixed
    ELSE /\ phase' = "unmounted"
         /\ container' = SelectSeq(container, LAMBDA n : n.kind # "root")
         /\ refs' = [i \in 1..Len(refs) |-> [refs[i] EXCEPT !.mounted = FALSE]]
         /\ mounted' = FALSE
         /\ hooks' = IF mounted THEN [hooks EXCEPT !.onUnmount = @ + 1] ELSE hooks
         /\ stateListeners' = IF onUnmount = <<>> THEN stateListeners
                              ELSE callbacksDelete(stateListeners, BlockListener)
         /\ handles' = IF onUnmount = <<>> THEN handles
                       ELSE [h \in 1..Len(handles) |-> [handles[h] EXCEPT !.active = FALSE]]
         /\ disposed' = [disposed EXCEPT !["removeListener"] = @ + Len(onUnmount)]
         /\ onUnmount' = <<>>
         /\ calls' = <<>>
         /\ slast' = SignalCall("unmount", 0, "")
         /\ events' = <<Event("remove", "root")>> \o UnmountEvents(refs, 1)
                        \o DisposeEvents(onUnmount)
         /\ blast' = BlockCall("unmount", "void", 0, "")
         /\ UNCHANGED <<currentState, visible, tplaceholder, tdom, tlast, bmounted>>
         /\ UNCHANGED showFixed

\* ref.unmount() on the i-th of const refs, called by the code that holds the
\* ref: nothing unless mounted; the onUnmount of the binding's ref is the
\* toggle's () => {}, so its subscription stays
shownUnmountAt(i) ==
    /\ refs' = [refs EXCEPT ![i].mounted = FALSE]
    /\ IF refs[i].kind = "show"
       THEN /\ mounted' = FALSE
            /\ hooks' = IF refs[i].mounted THEN [hooks EXCEPT !.onUnmount = @ + 1]
                        ELSE hooks
            /\ tlast' = ToggleCall("unmount", "void", "", visible)
       ELSE UNCHANGED <<mounted, hooks, tlast>>
    /\ events' = UnmountEvents(<<refs[i]>>, 1)
    /\ blast' = BlockCall("ref.unmount", "void", 0, "")
    /\ calls' = <<>>
    /\ slast' = SignalCall("ref.unmount", 0, "")
    /\ UNCHANGED <<currentState, stateListeners, handles, visible, tplaceholder, tdom,
                   phase, bmounted, onUnmount, container, disposed>>
    /\ UNCHANGED showFixed

\* ref.mount(element) on the i-th of const refs, called by the code that holds
\* the ref, with the element the ref was rendered for: a mounted ref throws.
\* The binding's ref runs init (a new placeholder before the element) and
\* onMount again: toggle.visible = true, which is not the value the listener
\* left there, so the element goes before the new placeholder; then a further
\* context.on(signal, listener) with a new wrapper and a new remover, whose
\* first run assigns toggle.visible the signal's value
shownMountAt(i) ==
    IF refs[i].mounted
    THEN /\ blast' = BlockCall("ref.mount", "error", 0, RemountError)
         /\ tlast' = IF refs[i].kind = "show"
                     THEN ToggleCall("mount", "error", RemountError, visible)
                     ELSE tlast
         /\ events' = <<>>
         /\ calls' = <<>>
         /\ slast' = SignalCall("ref.mount", 0, "")
         /\ UNCHANGED <<currentState, stateListeners, handles, mounted, visible,
                        tplaceholder, tdom, hooks, phase, bmounted, refs, onUnmount,
                        container, disposed>>
         /\ UNCHANGED showFixed
    ELSE /\ refs' = [refs EXCEPT ![i].mounted = TRUE]
         /\ IF refs[i].kind = "show"
            THEN /\ hooks.init < MaxMounts
                 /\ Len(handles) < MaxHandles
                 /\ LET ph == Text(hooks.init + 1)
                        shown == ShownAssigned(JsBoolean(initialVisible), visible, ph,
                                               insertBefore(tdom, Element, ph))
                        ran == ShownAssigned(JsValue("number", currentState),
                                             shown.visible, ph, shown.dom)
                    IN  /\ tplaceholder' = ph
                        /\ visible' = ran.visible
                        /\ tdom' = ran.dom
                 /\ mounted' = TRUE
                 /\ hooks' = [hooks EXCEPT !.init = @ + 1, !.onMount = @ + 1]
                 /\ tlast' = ToggleCall("mount", "void", "", visible)
                 /\ stateListeners' = Append(stateListeners, BlockListener)
                 /\ handles' = Append(handles, [listener |-> BlockListener,
                                                group |-> "state", active |-> TRUE])
                 /\ onUnmount' = Append(onUnmount, "removeListener")
                 /\ calls' = <<[listener |-> BlockListener, args |-> <<currentState>>]>>
                 /\ slast' = SignalCall("on", BlockListener, "")
            ELSE /\ calls' = <<>>
                 /\ slast' = SignalCall("ref.mount", 0, "")
                 /\ UNCHANGED <<stateListeners, handles, mounted, visible, tplaceholder,
                                tdom, hooks, tlast, onUnmount>>
         /\ events' = <<Event("mount", refs[i].kind)>>
         /\ blast' = BlockCall("ref.mount", "void", 0, "")
         /\ UNCHANGED <<currentState, phase, bmounted, container, disposed>>
         /\ UNCHANGED showFixed

ShowNext ==
    \/ showRender
    \/ \E nextState \in Values : showSet(nextState)
    \/ elementCall
    \/ showUnmount
    \/ \E i \in 1..Len(refs) : shownUnmountAt(i)
    \/ \E i \in 1..Len(refs) : shownMountAt(i)

ShowStart ==
    /\ bindingFirst \in BOOLEAN
    /\ inside \in BOOLEAN
    /\ SignalInit /\ reducer = "none"
    /\ ListInit /\ ShownToggle /\ BlockIdle /\ StyleIdle

ShowSpec == ShowStart /\ [][ShowNext]_vars

\* C28: once block.mount has returned, every ref the builder registered whose
\* marker is in the rendered markup is mounted, also a ref whose marker lies
\* inside the element of a show binding registered before it whose signal
\* hides that element at mount.
C28_MarkedRefsMounted ==
    (blast.op = "render" /\ phase = "mounted") => \A i \in 1..Len(refs) : refs[i].mounted

=============================================================================
